---- MODULE Spec2Model ----
(***************************************************************************)
(* A model of provider-terraform: the terraform process harness            *)
(* (internal/terraform/terraform.go), and the Workspace reconciliation     *)
(* handlers Connect / Observe / Create / Update / Delete                   *)
(* (internal/controller/workspace/workspace.go).                           *)
(*                                                                         *)
(* Spec      one Workspace driven through successive reconciles; every     *)
(*           handler is one action, its harness results drawn with \E.     *)
(* SpecLock  concurrent harness calls of several reconciles, one action    *)
(*           per lock / subprocess step, sharing the package rwmutex.      *)
(* SpecLive  one Workspace reconciled forever, with fair requeues.         *)
(* SpecGC    the workdir garbage collector beside Workspace creation.      *)
(* SpecHash  one call of utils.HashAndModulo.                              *)
(* SpecShard the replicas of the provider and their identity informers.    *)
(* SpecOwn   SpecShard with one ProviderConfig Reconcile followed.         *)
(* SpecRun   one harness operation over runCommand, step by step.          *)
(* SpecClassify one call of terraform.Classify.                            *)
(* SpecOptions one invocation of terraform plan, apply or destroy.         *)
(* SpecSetup  the start of the provider process.                           *)
(* SpecEnv    concurrent Connects and the GIT_CRED_DIR variable.           *)
(* SpecEntry  the directory Connect derives from the entrypoint.           *)
(***************************************************************************)
EXTENDS Integers, Sequences, FiniteSets, TLC

(* ------------------------------ bounds --------------------------------- *)
\* number of distinct module texts a user can put in spec.forProvider.module
MaxModule == 2
\* largest number of resources a terraform state tracks
MaxRes == 1
\* number of concurrently reconciling goroutines in SpecLock
NProcs == 2
\* number of Workspaces created while the garbage collector runs
MaxWs == 1
\* longest identifier string handed to HashAndModulo
MaxIdLen == 3
\* largest declared size of the provider's ReplicaSet
MaxReplicas == 2
\* number of membership changes (scalings, pod starts and stops) followed
MaxChanges == 3
\* longest captured stderr handed to Classify, in characters
MaxStderr == 4
\* largest number of inline variables and of variable files of a Workspace
MaxVars == 2
MaxVarFiles == 2
\* longest entrypoint of a Workspace, in characters
MaxEntrypoint == 6

(* ----------------------------- constants ------------------------------- *)
tfDefault == "default"
noDiffInPlan == <<"No change in the terraform plan">>
errInit == "cannot initialize Terraform configuration"
errWorkspace == "cannot select Terraform workspace"
errResources == "cannot list Terraform resources"
errDiff == "cannot diff (i.e. plan) Terraform configuration"
errOutputs == "cannot list Terraform outputs"
errOptions == "cannot determine Terraform options"
errApply == "cannot apply Terraform configuration"
errDestroy == "cannot destroy Terraform configuration"
errDeleteWorkspace == "cannot delete Terraform workspace"
errChecksum == "cannot calculate workspace checksum"
errMkdir == "cannot make Terraform configuration directory"
errGetCreds == "cannot get credentials"
errWriteVarFile == "cannot write tfvars file"

\* the sub-workspaces of one WorkDir: terraform's default one and a named one
SubWs == {tfDefault, "ws"}
\* the outputs a module may declare; bucket_id is declared sensitive
OutputNames == {"url", "bucket_id"}
Sensitive(n) == n = "bucket_id"
\* stdout of a plan run that found a difference
PlanLogs == {<<"~ update in-place">>, <<"+ create">>}
\* exit codes of the plan subprocess (-1: no exit status, e.g. terminated)
ExitCodes == {-1, 0, 1, 2}

VARIABLES
  cr,        \* the Workspace as read at the start of a reconcile
  status,    \* cr.Status.AtProvider and the Available condition
  wd,        \* the WorkDir tf/<UID>
  tf,        \* the terraform state kept for the WorkDir
  pc,        \* what the managed reconciler does next with the Workspace
  conn,      \* what the last Connect did
  obs,       \* what the last Observe did
  op,        \* what the last Create / Update / Delete did
  prev,      \* summary of the previous reconcile
  rwmutex,   \* SpecLock: the package-level sync.RWMutex
  h,         \* SpecLock: per goroutine, the harness call in progress
  kube,      \* SpecGC: the Workspaces the API server holds, by UID
  fs,        \* SpecGC: the entries of the collector's parent directory
  gc,        \* SpecGC: the GarbageCollector goroutine
  call,      \* SpecHash: one call of utils.HashAndModulo
  cluster,   \* SpecShard: the provider's ReplicaSet and its pods
  rep,       \* SpecShard: per pod, the replica's identity and informers
  req,       \* SpecShard: the ProviderConfig Reconcile that is followed
  run,       \* SpecRun: one harness operation and its subprocess
  cls,       \* SpecClassify: one call of terraform.Classify
  inv,       \* SpecOptions: one invocation of plan, apply or destroy
  boot,      \* SpecSetup: the start of the provider process
  osenv,     \* SpecEnv: GIT_CRED_DIR and the Connects in progress
  entry      \* SpecEntry: the entrypoint of a Workspace and its directory

vars ==
  <<cr, status, wd, tf, pc, conn, obs, op, prev, rwmutex, h, kube, fs, gc,
    call, cluster, rep, req, run, cls, inv, boot,
    osenv, entry>>
recVars == <<cr, status, wd, tf, pc, conn, obs, op, prev>>
lockVars == <<rwmutex, h>>
gcVars == <<kube, fs, gc>>
shardVars == <<call, cluster, rep, req>>
unitVars == <<cls, inv, boot, osenv, entry>>

Has(seq, x) == \E i \in 1..Len(seq) : seq[i] = x
Last(seq) == seq[Len(seq)]

(* =========================== process harness =========================== *)

\* gzip + base64 of the plan text: never empty, one-to-one
formatTerraformPlanOutput(output) == <<"base64", "gzip">> \o output

\* the md5 digest over the tracked files of the WorkDir: the module file,
\* what init leaves outside .terraform/providers, and .terraform/environment.
\* Files under .terraform/providers are pruned.
GenerateChecksum(w, t, ok) ==
  [sum |-> IF ok THEN <<"md5", w.main, w.lock, t.cur>> ELSE <<>>, err |-> ~ok]

\* terraform init: writes the lock file / module cache and the plugins
HarnessInit(w, ok) ==
  [wd |-> IF ok THEN [w EXCEPT !.lock = TRUE, !.providers = TRUE] ELSE w,
   err |-> ~ok]

\* workspace select, and workspace new when the select fails
Workspace(t, name, selOK, newOK) ==
  IF selOK /\ name \in t.exists
    THEN [tf |-> [t EXCEPT !.cur = name], err |-> FALSE, cmds |-> <<"select">>]
    ELSE IF newOK /\ name \notin t.exists
      THEN [tf |-> [t EXCEPT !.cur = name, !.exists = @ \cup {name}],
            err |-> FALSE, cmds |-> <<"select", "new">>]
      ELSE [tf |-> t, err |-> TRUE, cmds |-> <<"select", "new">>]

EmptyState == [res |-> 0, outs |-> {}]

\* a DeleteCurrentWorkspace that goes on to `workspace delete` although the
\* switch to the default sub-workspace failed
DeleteCurrentWorkspaceUnswitched(t, showOK, selOK, newOK, delOK) ==
  IF ~showOK THEN [tf |-> t, err |-> TRUE, cmds |-> <<"show">>]
  ELSE IF t.cur = tfDefault THEN [tf |-> t, err |-> FALSE, cmds |-> <<"show">>]
  ELSE LET name == t.cur
           sw == Workspace(t, tfDefault, selOK, newOK)
       IN IF delOK
            THEN [tf |-> [sw.tf EXCEPT !.exists = @ \ {name}, !.st[name] = EmptyState],
                  err |-> FALSE, cmds |-> <<"show">> \o sw.cmds \o <<"delete">>]
            ELSE [tf |-> sw.tf, err |-> TRUE, cmds |-> <<"show">> \o sw.cmds \o <<"delete">>]

\* workspace show; unless default: Workspace(default), then workspace delete
DeleteCurrentWorkspace(t, showOK, selOK, newOK, delOK) ==
  IF ~showOK THEN [tf |-> t, err |-> TRUE, cmds |-> <<"show">>]
  ELSE IF t.cur = tfDefault THEN [tf |-> t, err |-> FALSE, cmds |-> <<"show">>]
  ELSE LET name == t.cur
           sw == Workspace(t, tfDefault, selOK, newOK)
       IN IF sw.err THEN [tf |-> sw.tf, err |-> TRUE, cmds |-> <<"show">> \o sw.cmds]
          ELSE IF delOK
            THEN [tf |-> [sw.tf EXCEPT !.exists = @ \ {name}, !.st[name] = EmptyState],
                  err |-> FALSE, cmds |-> <<"show">> \o sw.cmds \o <<"delete">>]
            ELSE [tf |-> sw.tf, err |-> TRUE, cmds |-> <<"show">> \o sw.cmds \o <<"delete">>]

\* terraform output -json, of the current sub-workspace
Outputs(t, ok) == [outs |-> IF ok THEN t.st[t.cur].outs ELSE {}, err |-> ~ok]

\* terraform state list, of the current sub-workspace
Resources(t, ok) == [r |-> IF ok THEN t.st[t.cur].res ELSE 0, err |-> ~ok]

\* terraform plan -detailed-exitcode
Diff(vfOK, exit, log) ==
  IF ~vfOK THEN [differs |-> FALSE, text |-> <<>>, err |-> TRUE, ran |-> FALSE]
  ELSE IF exit = 2
    THEN [differs |-> TRUE, text |-> formatTerraformPlanOutput(log), err |-> FALSE, ran |-> TRUE]
    ELSE [differs |-> FALSE, text |-> noDiffInPlan, err |-> exit # 0, ran |-> TRUE]

\* terraform apply: a run leaves the state st (whatever it managed to create)
Apply(t, vfOK, ok, st) ==
  IF ~vfOK THEN [tf |-> t, err |-> TRUE, ran |-> FALSE]
  ELSE [tf |-> [t EXCEPT !.st[t.cur] = st], err |-> ~ok, ran |-> TRUE]

\* (mutant) a destroy that reports success without removing anything
DestroyLeavesState(t, vfOK, ok) ==
  IF ~vfOK THEN [tf |-> t, err |-> TRUE, ran |-> FALSE]
  ELSE [tf |-> t, err |-> ~ok, ran |-> TRUE]

\* terraform destroy: a successful run leaves an empty state
Destroy(t, vfOK, ok) ==
  IF ~vfOK THEN [tf |-> t, err |-> TRUE, ran |-> FALSE]
  ELSE [tf |-> IF ok THEN [t EXCEPT !.st[t.cur] = EmptyState] ELSE t,
        err |-> ~ok, ran |-> TRUE]

(* ======================= workspace controller ========================== *)

\* (mutant) an observation that keeps the checksum and the plan of the status
generateWorkspaceObservationKeeps(outs, s) ==
  [s EXCEPT !.outputs = {n \in outs : ~Sensitive(n)}]

\* (mutant) an observation that mirrors every output into the status
generateWorkspaceObservationAll(outs, s) ==
  [s EXCEPT !.outputs = outs, !.checksum = <<>>, !.plan = FALSE]

\* the status outputs: the non-sensitive outputs only; checksum and plan empty
generateWorkspaceObservation(outs, s) ==
  [s EXCEPT !.outputs = {n \in outs : ~Sensitive(n)}, !.checksum = <<>>,
            !.plan = FALSE]

\* connection details: one entry per output
op2cd(outs) == outs


\* Connect skips init when a checksum is recorded and equals the fresh one
SkipInitNever(recorded, sum) == FALSE
SkipInitAnyRecorded(recorded, sum) == recorded # <<>>
SkipInit(recorded, sum) == recorded # <<>> /\ recorded = sum

ConnectInputs ==
  [prep : {"ok", "mkdir", "creds"}, chkOK : BOOLEAN, initOK : BOOLEAN,
   selOK : BOOLEAN, newOK : BOOLEAN]

\* the tracked content of the WorkDir, as GenerateChecksum would digest it
Content(w, t) == GenerateChecksum(w, t, TRUE).sum

\* connector.Connect, from the creation of the WorkDir to the final
\* tf.Workspace(external name)
ConnectOp(c, s, w, t, in) ==
  IF in.prep = "mkdir"
    THEN [wd |-> w, tf |-> t, err |-> errMkdir, calls |-> <<>>, fresh |-> <<>>]
  ELSE LET w1 == [w EXCEPT !.main = c.module] IN
  IF in.prep = "creds"
    THEN [wd |-> w1, tf |-> t, err |-> errGetCreds, calls |-> <<>>, fresh |-> <<>>]
  ELSE LET ck  == GenerateChecksum(w1, t, in.chkOK)
           pre == IF s.checksum # <<>> THEN <<"GenerateChecksum">> ELSE <<>>
           fr  == IF s.checksum # <<>> THEN ck.sum ELSE <<>>
       IN
  IF s.checksum # <<>> /\ ck.err
    THEN [wd |-> w1, tf |-> t, err |-> errChecksum, calls |-> pre, fresh |-> fr]
  ELSE IF SkipInit(s.checksum, ck.sum)
    THEN LET ws == Workspace(t, c.name, in.selOK, in.newOK)
         IN [wd |-> w1, tf |-> ws.tf, err |-> IF ws.err THEN errWorkspace ELSE "",
             calls |-> pre \o <<"Workspace">>, fresh |-> fr]
  ELSE LET ini == HarnessInit(w1, in.initOK) IN
  IF ini.err
    THEN [wd |-> ini.wd, tf |-> t, err |-> errInit, calls |-> pre \o <<"Init">>,
          fresh |-> fr]
  ELSE LET ws == Workspace(t, c.name, in.selOK, in.newOK)
       IN [wd |-> ini.wd, tf |-> ws.tf, err |-> IF ws.err THEN errWorkspace ELSE "",
           calls |-> pre \o <<"Init", "Workspace">>, fresh |-> fr]

\* Observe runs its steps in sequence and returns at the first one that
\* fails, so an outcome is drawn for the plan (which a tombstoned Workspace
\* survives) and for at most one failing step after it
StepsOK ==
  [optOK |-> TRUE, resOK |-> TRUE, showOK |-> TRUE, selOK |-> TRUE, newOK |-> TRUE,
   delOK |-> TRUE, outOK |-> TRUE, chkOK |-> TRUE]

OneFailure ==
  {StepsOK} \cup {[StepsOK EXCEPT ![f] = FALSE] : f \in DOMAIN StepsOK}

\* what can become of the plan: its tfvars files cannot be written, or the
\* subprocess ends with an exit code and, on a difference, the plan on stdout
PlanOutcomes ==
  {[vfOK |-> FALSE, exit |-> -1, log |-> <<>>]}
    \cup {[vfOK |-> TRUE, exit |-> e, log |-> <<>>] : e \in ExitCodes \ {2}}
    \cup {[vfOK |-> TRUE, exit |-> 2, log |-> l] : l \in PlanLogs}

ObserveInputs ==
  {[optOK |-> s.optOK, vfOK |-> p.vfOK, exit |-> p.exit, log |-> p.log,
    resOK |-> s.resOK, showOK |-> s.showOK, selOK |-> s.selOK, newOK |-> s.newOK,
    delOK |-> s.delOK, outOK |-> s.outOK, chkOK |-> s.chkOK] :
      s \in OneFailure, p \in PlanOutcomes}

NoDiff == [differs |-> FALSE, text |-> <<>>, err |-> FALSE, ran |-> FALSE]

\* checkDiff that lets the reconcile go on after every plan error
checkDiffSuppressAll(c, in) ==
  IF ~in.optOK
    THEN [differs |-> FALSE, text |-> <<>>, err |-> errOptions, calls |-> <<>>, d |-> NoDiff]
  ELSE LET d == Diff(in.vfOK, in.exit, in.log) IN
  IF d.err
    THEN [differs |-> FALSE, text |-> d.text, err |-> "", calls |-> <<"Diff">>, d |-> d]
  ELSE [differs |-> d.differs, text |-> d.text, err |-> "", calls |-> <<"Diff">>, d |-> d]

\* checkDiff without the WasDeleted test: every plan error is returned
checkDiffNoSuppress(c, in) ==
  IF ~in.optOK
    THEN [differs |-> FALSE, text |-> <<>>, err |-> errOptions, calls |-> <<>>, d |-> NoDiff]
  ELSE LET d == Diff(in.vfOK, in.exit, in.log) IN
  IF d.err
    THEN [differs |-> FALSE, text |-> d.text, err |-> errDiff, calls |-> <<"Diff">>, d |-> d]
  ELSE [differs |-> d.differs, text |-> d.text, err |-> "", calls |-> <<"Diff">>, d |-> d]

\* external.checkDiff: the plan, its error suppressed for a tombstoned Workspace
checkDiff(c, in) ==
  IF ~in.optOK
    THEN [differs |-> FALSE, text |-> <<>>, err |-> errOptions, calls |-> <<>>, d |-> NoDiff]
  ELSE LET d == Diff(in.vfOK, in.exit, in.log) IN
  IF d.err /\ ~c.deleted
    THEN [differs |-> FALSE, text |-> d.text, err |-> errDiff, calls |-> <<"Diff">>, d |-> d]
  ELSE IF d.err
    THEN [differs |-> FALSE, text |-> d.text, err |-> "", calls |-> <<"Diff">>, d |-> d]
  ELSE [differs |-> d.differs, text |-> d.text, err |-> "", calls |-> <<"Diff">>, d |-> d]

\* the sub-workspace is deleted once a tombstoned Workspace tracks nothing
ShouldDeleteInverted(c, r) == c.deleted /\ r # 0
ShouldDeleteAnyTombstoned(c, r) == c.deleted
ShouldDeleteWorkspace(c, r) == c.deleted /\ r = 0

\* ResourceExists: len(r)+len(op) > 0
ResourceExistsIgnoresOutputs(r, outs) == r > 0
ResourceExistsIgnoresResources(r, outs) == Cardinality(outs) > 0
ResourceExists(r, outs) == r + Cardinality(outs) > 0

\* cr.Status.AtProvider.Checksum = checksum
SetChecksumForgotten(s, sum) == s
SetChecksum(s, sum) == [s EXCEPT !.checksum = sum]

ZeroObservation == [exists |-> FALSE, upToDate |-> FALSE, cd |-> {}]

\* external.Observe
ObserveOp(c, s, t, w, in) ==
  LET cd == checkDiff(c, in)
      R(st, tt, e, o, calls, r, outs) ==
        [status |-> st, tf |-> tt, err |-> e, o |-> o, calls |-> calls,
         diff |-> cd.d, differs |-> cd.differs, r |-> r, outs |-> outs]
  IN
  IF cd.err # "" THEN R(s, t, cd.err, ZeroObservation, cd.calls, -1, {})
  ELSE LET res == Resources(t, in.resOK)
           c1  == cd.calls \o <<"Resources">>
       IN
  IF res.err THEN R(s, t, errResources, ZeroObservation, c1, -1, {})
  ELSE LET del == ShouldDeleteWorkspace(c, res.r)
           dw  == DeleteCurrentWorkspace(t, in.showOK, in.selOK, in.newOK, in.delOK)
           t2  == IF del THEN dw.tf ELSE t
           c2  == IF del THEN c1 \o <<"DeleteCurrentWorkspace">> ELSE c1
       IN
  IF del /\ dw.err THEN R(s, t2, errDeleteWorkspace, ZeroObservation, c2, res.r, {})
  ELSE LET out == Outputs(t2, in.outOK)
           c3  == c2 \o <<"Outputs">>
       IN
  IF out.err THEN R(s, t2, errOutputs, ZeroObservation, c3, res.r, {})
  ELSE LET s1 == generateWorkspaceObservation(out.outs, s)
           ck == GenerateChecksum(w, t2, in.chkOK)
           c4 == c3 \o <<"GenerateChecksum">>
       IN
  IF ck.err THEN R(s1, t2, errChecksum, ZeroObservation, c4, res.r, out.outs)
  ELSE LET s2 == [SetChecksum(s1, ck.sum) EXCEPT
                    !.plan = c.includePlan,
                    !.available = IF cd.differs THEN @ ELSE TRUE]
       IN R(s2, t2, "",
            [exists |-> ResourceExists(res.r, out.outs),
             upToDate |-> ~cd.differs, cd |-> op2cd(out.outs)],
            c4, res.r, out.outs)

States == [res : 0..MaxRes, outs : SUBSET OutputNames]

UpdateInputs ==
  [optOK : BOOLEAN, vfOK : BOOLEAN, applyOK : BOOLEAN, st : States, outOK : BOOLEAN]

\* an Update that marks the Workspace available as soon as apply succeeded
UpdateOpAvailableEarly(s, t, in) ==
  IF ~in.optOK THEN [status |-> s, tf |-> t, err |-> errOptions, calls |-> <<>>, cd |-> {}]
  ELSE LET ap == Apply(t, in.vfOK, in.applyOK, in.st) IN
  IF ap.err THEN [status |-> s, tf |-> ap.tf, err |-> errApply, calls |-> <<"Apply">>, cd |-> {}]
  ELSE LET out == Outputs(ap.tf, in.outOK) IN
  IF out.err
    THEN [status |-> [s EXCEPT !.available = TRUE], tf |-> ap.tf, err |-> errOutputs,
          calls |-> <<"Apply", "Outputs">>, cd |-> {}]
  ELSE [status |-> [generateWorkspaceObservation(out.outs, s) EXCEPT !.available = TRUE],
        tf |-> ap.tf, err |-> "", calls |-> <<"Apply", "Outputs">>, cd |-> op2cd(out.outs)]

\* external.Update (and external.Create, which calls it)
UpdateOp(s, t, in) ==
  IF ~in.optOK THEN [status |-> s, tf |-> t, err |-> errOptions, calls |-> <<>>, cd |-> {}]
  ELSE LET ap == Apply(t, in.vfOK, in.applyOK, in.st) IN
  IF ap.err THEN [status |-> s, tf |-> ap.tf, err |-> errApply, calls |-> <<"Apply">>, cd |-> {}]
  ELSE LET out == Outputs(ap.tf, in.outOK) IN
  IF out.err
    THEN [status |-> s, tf |-> ap.tf, err |-> errOutputs, calls |-> <<"Apply", "Outputs">>,
          cd |-> {}]
  ELSE [status |-> [generateWorkspaceObservation(out.outs, s) EXCEPT !.available = TRUE],
        tf |-> ap.tf, err |-> "", calls |-> <<"Apply", "Outputs">>, cd |-> op2cd(out.outs)]

DeleteInputs == [optOK : BOOLEAN, vfOK : BOOLEAN, destroyOK : BOOLEAN]

\* external.Delete
DeleteOp(t, in) ==
  IF ~in.optOK THEN [tf |-> t, err |-> errOptions, calls |-> <<>>]
  ELSE LET ds == Destroy(t, in.vfOK, in.destroyOK)
       IN [tf |-> ds.tf, err |-> IF ds.err THEN errDestroy ELSE "", calls |-> <<"Destroy">>]


(* ========================= the reconcile loop ========================== *)
(* managed.NewReconciler drives the handlers: Connect, Observe, then       *)
(* Delete (tombstoned and existing), Create (not existing) or Update (not  *)
(* up to date), and writes the status back after each reconcile.           *)

NoPrev == [observed |-> FALSE, op |-> "none", opOK |-> FALSE, content |-> <<>>]

NoConn ==
  [called |-> FALSE, err |-> "", calls |-> <<>>, recorded |-> <<>>, fresh |-> <<>>,
   content |-> <<>>, prev |-> NoPrev]

NoObs ==
  [called |-> FALSE, err |-> "", calls |-> <<>>, deleted |-> FALSE, exit |-> 0,
   diff |-> NoDiff, differs |-> FALSE, r |-> -1, outs |-> {}, o |-> ZeroObservation,
   before |-> <<>>, own |-> EmptyState, content |-> <<>>, destroyed |-> FALSE]

NoOp == [called |-> "none", err |-> "", calls |-> <<>>, cd |-> {}]

InitRec ==
  \* the Workspace asks for the plan in its status (includePlan: true);
  \* without it no status ever carries a plan
  /\ cr \in [deleted : {FALSE}, module : 1..MaxModule, name : SubWs,
              includePlan : {TRUE}]
  /\ status = [checksum |-> <<>>, outputs |-> {}, available |-> FALSE,
               plan |-> FALSE]
  /\ wd = [main |-> 0, lock |-> FALSE, providers |-> FALSE]
  /\ tf = [cur |-> tfDefault, exists |-> {tfDefault}, st |-> [n \in SubWs |-> EmptyState]]
  /\ pc = "connect"
  /\ conn = NoConn
  /\ obs = NoObs
  /\ op = NoOp
  /\ prev = NoPrev

\* the user edits spec.forProvider.module between two reconciles
UserEdit ==
  /\ pc = "connect"
  /\ \E m \in 1..MaxModule : m # cr.module /\ cr' = [cr EXCEPT !.module = m]
  /\ UNCHANGED <<status, wd, tf, pc, conn, obs, op, prev>>

\* the user deletes the Workspace: the API server sets the deletion timestamp
Tombstone ==
  /\ pc = "connect"
  /\ ~cr.deleted
  /\ cr' = [cr EXCEPT !.deleted = TRUE]
  /\ UNCHANGED <<status, wd, tf, pc, conn, obs, op, prev>>

Connect ==
  /\ pc = "connect"
  /\ \E in \in ConnectInputs :
       LET c == ConnectOp(cr, status, wd, tf, in) IN
         /\ wd' = c.wd
         /\ tf' = c.tf
         /\ conn' = [called |-> TRUE, err |-> c.err, calls |-> c.calls,
                     recorded |-> status.checksum, fresh |-> c.fresh,
                     content |-> IF in.prep = "ok" THEN Content(c.wd, tf) ELSE <<>>,
                     prev |-> prev]
         /\ pc' = IF c.err = "" THEN "observe" ELSE "done"
  /\ prev' = NoPrev
  /\ UNCHANGED <<cr, status, obs, op>>

Observe ==
  /\ pc = "observe"
  /\ \E in \in ObserveInputs :
       LET o == ObserveOp(cr, status, tf, wd, in) IN
         /\ status' = o.status
         /\ tf' = o.tf
         /\ obs' = [called |-> TRUE, err |-> o.err, calls |-> o.calls,
                    deleted |-> cr.deleted, exit |-> in.exit, diff |-> o.diff,
                    differs |-> o.differs, r |-> o.r, outs |-> o.outs, o |-> o.o,
                    before |-> status.checksum, own |-> tf.st[cr.name],
                    content |-> Content(wd, o.tf),
                    destroyed |-> conn.prev.op = "delete" /\ conn.prev.opOK]
         /\ pc' = IF o.err # "" THEN "done"
                  ELSE IF cr.deleted THEN (IF o.o.exists THEN "delete" ELSE "gone")
                  ELSE IF ~o.o.exists THEN "create"
                  ELSE IF o.o.upToDate THEN "done"
                  ELSE "update"
         /\ prev' = IF o.err = "" /\ ~cr.deleted /\ o.o.exists /\ o.o.upToDate
                    THEN [observed |-> TRUE, op |-> "none", opOK |-> TRUE,
                          content |-> Content(wd, o.tf)]
                    ELSE NoPrev
  /\ conn' = NoConn
  /\ UNCHANGED <<cr, wd, op>>

\* the body shared by Create and Update
UpdateHandler(name) ==
  \E in \in UpdateInputs :
    LET u == UpdateOp(status, tf, in) IN
      /\ status' = u.status
      /\ tf' = u.tf
      /\ op' = [called |-> name, err |-> u.err, calls |-> u.calls, cd |-> u.cd]
      /\ pc' = "done"
      /\ prev' = [observed |-> TRUE, op |-> name, opOK |-> (u.err = ""),
                   content |-> obs.content]
      /\ obs' = NoObs
      /\ UNCHANGED <<cr, wd, conn>>

\* a Create of its own that applies and returns the connection details but
\* leaves the status to the next Observe
CreateWithoutStatus ==
  /\ pc = "create"
  /\ \E in \in UpdateInputs :
       LET u == UpdateOp(status, tf, in) IN
         /\ tf' = u.tf
         /\ op' = [called |-> "create", err |-> u.err, calls |-> u.calls, cd |-> u.cd]
         /\ pc' = "done"
         /\ prev' = [observed |-> TRUE, op |-> "create", opOK |-> (u.err = ""),
                      content |-> obs.content]
         /\ obs' = NoObs
         /\ UNCHANGED <<cr, status, wd, conn>>

Create == pc = "create" /\ UpdateHandler("create")

Update == pc = "update" /\ UpdateHandler("update")

Delete ==
  /\ pc = "delete"
  /\ \E in \in DeleteInputs :
       LET d == DeleteOp(tf, in) IN
         /\ tf' = d.tf
         /\ op' = [called |-> "delete", err |-> d.err, calls |-> d.calls, cd |-> {}]
         /\ prev' = [observed |-> TRUE, op |-> "delete", opOK |-> (d.err = ""),
                      content |-> obs.content]
  /\ pc' = "done"
  /\ obs' = NoObs
  /\ UNCHANGED <<cr, status, wd, conn>>

\* the reconciler writes the status back and returns; the Workspace is
\* queued for its next reconcile
Requeue ==
  /\ pc = "done"
  /\ pc' = "connect"
  /\ conn' = NoConn
  /\ obs' = NoObs
  /\ op' = NoOp
  /\ UNCHANGED <<cr, status, wd, tf, prev>>


(* ================== the harness under concurrency ====================== *)
(* Every reconcile goroutine calls harness methods; each method starts     *)
(* terraform subprocesses through runCommand, some of them under the       *)
(* package-level rwmutex when the harness has UsePluginCache set.          *)

Procs == 1..NProcs

Methods ==
  {"Init", "Workspace", "DeleteCurrentWorkspace", "GenerateChecksum", "Outputs",
   "Resources", "Diff", "Apply", "Destroy"}

\* the first subprocess a harness method starts
FirstCmd(m) ==
  CASE m = "Init" -> "init"
    [] m = "Workspace" -> "select"
    [] m = "DeleteCurrentWorkspace" -> "show"
    [] m = "GenerateChecksum" -> "checksum"
    [] m = "Outputs" -> "output"
    [] m = "Resources" -> "state list"
    [] m = "Diff" -> "plan"
    [] m = "Apply" -> "apply"
    [] m = "Destroy" -> "destroy"

\* (mutant) Init takes the read side of rwmutex
LockModeInitShared(cmd) ==
  CASE cmd \in {"init", "new", "delete", "output", "state list", "apply", "destroy"}
         -> "R"
    [] cmd \in {"select", "show", "checksum", "plan"} -> "none"

\* Apply without its RLock
LockModeApplyUnlocked(cmd) ==
  CASE cmd = "init" -> "W"
    [] cmd \in {"new", "delete", "output", "state list", "destroy"} -> "R"
    [] cmd \in {"select", "show", "checksum", "plan", "apply"} -> "none"

\* the side of rwmutex a method takes before it starts the subprocess
LockMode(cmd) ==
  CASE cmd = "init" -> "W"
    [] cmd \in {"new", "delete", "output", "state list", "apply", "destroy"} -> "R"
    [] cmd \in {"select", "show", "checksum", "plan"} -> "none"

\* where a method stands once it knows which subprocess comes next
Before(cache, cmd) == IF cache /\ LockMode(cmd) # "none" THEN "lock" ELSE "start"

Idle == [cache |-> FALSE, inner |-> FALSE, phase |-> "idle", cmd |-> "none"]

\* the subprocess goroutine p has running: cmd.Output() has started it and
\* it has not exited
Running(p) == IF h[p].phase = "run" THEN h[p].cmd ELSE "none"

\* the side of rwmutex goroutine p holds
Held(hp) ==
  IF hp.phase \in {"start", "run"} /\ hp.cache THEN LockMode(hp.cmd) ELSE "none"

InitLock ==
  /\ rwmutex = [writer |-> 0, held |-> FALSE, readers |-> 0]
  /\ h = [p \in Procs |-> Idle]

\* a reconcile calls a method of a harness built with or without the cache
Call(p) ==
  /\ h[p].phase = "idle"
  /\ \E m \in Methods, cache \in BOOLEAN :
       h' = [h EXCEPT ![p] = [cache |-> cache, inner |-> (m = "DeleteCurrentWorkspace"),
                              phase |-> Before(cache, FirstCmd(m)), cmd |-> FirstCmd(m)]]
  /\ UNCHANGED rwmutex

\* rwmutex.Lock(), first half: exclude other writers and turn new readers away
LockAnnounce(p) ==
  /\ h[p].phase = "lock" /\ LockMode(h[p].cmd) = "W"
  /\ rwmutex.writer = 0
  /\ rwmutex' = [rwmutex EXCEPT !.writer = p]
  /\ h' = [h EXCEPT ![p].phase = "wlock"]

\* rwmutex.Lock(), second half: the active readers have drained
LockAcquire(p) ==
  /\ h[p].phase = "wlock"
  /\ rwmutex.writer = p /\ rwmutex.readers = 0
  /\ rwmutex' = [rwmutex EXCEPT !.held = TRUE]
  /\ h' = [h EXCEPT ![p].phase = "start"]

\* rwmutex.RLock(): blocks while a writer holds or waits for the lock
RLock(p) ==
  /\ h[p].phase = "lock" /\ LockMode(h[p].cmd) = "R"
  /\ rwmutex.writer = 0
  /\ rwmutex' = [rwmutex EXCEPT !.readers = @ + 1]
  /\ h' = [h EXCEPT ![p].phase = "start"]

\* runCommand starts the subprocess
Start(p) ==
  /\ h[p].phase = "start"
  /\ h' = [h EXCEPT ![p].phase = "run"]
  /\ UNCHANGED rwmutex

\* (mutant) the deferred Unlock of Init leaves the writer registered
ReleaseKeepsWriter(held) ==
  CASE held = "W" -> [rwmutex EXCEPT !.held = FALSE]
    [] held = "R" -> [rwmutex EXCEPT !.readers = @ - 1]
    [] held = "none" -> rwmutex

\* the deferred RUnlock / Unlock of the function that took the lock
Release(held) ==
  CASE held = "W" -> [rwmutex EXCEPT !.writer = 0, !.held = FALSE]
    [] held = "R" -> [rwmutex EXCEPT !.readers = @ - 1]
    [] held = "none" -> rwmutex

\* the subprocess the method starts next, "none" when the method returns
NextCmd(hp, ok, isDefault) ==
  CASE hp.cmd = "select" /\ ~ok -> "new"
    [] hp.cmd = "select" /\ ok /\ hp.inner -> "delete"
    [] hp.cmd = "new" /\ ok /\ hp.inner -> "delete"
    [] hp.cmd = "show" /\ ok /\ ~isDefault -> "select"
    [] OTHER -> "none"

\* the subprocess exits, with or without error, and runCommand returns; the
\* function that took the lock returns and runs its deferred unlock; the
\* method is over, or Workspace falls back to workspace new, or
\* DeleteCurrentWorkspace goes on to Workspace(default) and workspace delete
Exit(p) ==
  /\ h[p].phase = "run"
  /\ \E ok \in BOOLEAN, isDefault \in BOOLEAN :
       LET n == NextCmd(h[p], ok, isDefault) IN
         /\ rwmutex' = Release(Held(h[p]))
         /\ h' = [h EXCEPT ![p] =
                    IF n = "none" THEN Idle
                    ELSE [h[p] EXCEPT !.cmd = n, !.phase = Before(h[p].cache, n)]]

(* ========================= garbage collector =========================== *)
(* workdir.GarbageCollector: Run waits for the ticker or the context, and   *)
(* collect lists the Workspaces, reads the parent directory and removes    *)
(* the directories of UUID shape that no listed Workspace owns. Workspaces *)
(* are created and deleted, and Connect makes their WorkDir, meanwhile.    *)

\* UIDs the API server gives to Workspaces
UIDName ==
  <<"8371dd9e-dd3f-4a42-bd8c-340c4744f6de", "ebaac629-43a3-4b39-8138-d7ac19cafe11",
    "1b4e28ba-2fa1-41d2-883f-0016d3cca427", "f47ac10b-58cc-4372-a567-0e02b2c3d479">>
UIDs == {UIDName[i] : i \in 1..MaxWs}
\* the WorkDir of a Workspace that was deleted before the provider started
StaleUID == "0d177133-1a2f-4ce2-93d2-f8212d3344e7"
\* a regular file whose name has the shape of a UUID
FileUID == "6ba7b810-9dad-41d1-80b4-00c04fd430c8"
\* the shared plugin cache, TF_PLUGIN_CACHE_DIR=/tf/plugin-cache
PluginCache == "plugin-cache"
parentDir == "/tf"

FsNames == UIDs \cup {StaleUID, FileUID, PluginCache}
\* every name in the order of a sorted directory listing
Sorted ==
  <<StaleUID, UIDName[3], FileUID, UIDName[1], UIDName[2], UIDName[4], PluginCache>>

\* uuid.Parse succeeds
isUUID(u) == u \in {UIDName[i] : i \in 1..Len(UIDName)} \cup {StaleUID, FileUID}

errListWorkspaces == "cannot list workspaces"
errFmtReadDir == "cannot read directory"
errDeleteDirs == "could not delete directories"

\* afero ReadDir: the entries sorted by name, each with its file mode
ReadDir(f) ==
  LET Present(n) == n \in DOMAIN f /\ f[n] # "none"
      names == SelectSeq(Sorted, Present)
  IN [k \in 1..Len(names) |-> [name |-> names[k], isDir |-> f[names[k]] = "dir"]]

Path(name) == <<parentDir, name>>

\* (mutant) a loop body that does not look at the listed Workspaces
SkipIgnoresLive(exists, fi) == ~fi.isDir \/ ~isUUID(fi.name)

\* (mutant) a loop body that does not look at the shape of the name
SkipIgnoresShape(exists, fi) == ~fi.isDir \/ fi.name \in exists

\* the loop body of collect skips the entry
Skip(exists, fi) == ~fi.isDir \/ ~isUUID(fi.name) \/ fi.name \in exists

\* (mutant) a loop that stops at the first failed removal
NextStaleUntilFailure(c) ==
  LET ks == {k \in c.i..Len(c.fis) : ~Skip(c.exists, c.fis[k])}
  IN IF ks = {} \/ c.failed # <<>> THEN 0 ELSE CHOOSE k \in ks : \A j \in ks : k <= j

\* the next entry from index i on that collect tries to remove, 0 if none
NextStale(c) ==
  LET ks == {k \in c.i..Len(c.fis) : ~Skip(c.exists, c.fis[k])}
  IN IF ks = {} THEN 0 ELSE CHOOSE k \in ks : \A j \in ks : k <= j

\* the local variables of one call of collect, and what the cycle did
NoCycle ==
  [exists |-> {}, fis |-> <<>>, i |-> 1, failed |-> <<>>, attempted |-> {},
   removed |-> {}, made |-> {}, err |-> <<>>]

InitGC ==
  /\ kube = [live |-> {}, used |-> {}]
  /\ fs = [n \in FsNames |->
             IF n \in UIDs THEN "none" ELSE IF n = FileUID THEN "file" ELSE "dir"]
  /\ gc = [phase |-> "wait", tick |-> FALSE, done |-> FALSE, c |-> NoCycle,
           last |-> [ran |-> FALSE, err |-> <<>>], hit |-> {}]

\* a user creates a Workspace; the API server gives it a fresh UID
CreateWorkspace(u) ==
  /\ u \notin kube.used
  /\ kube' = [live |-> kube.live \cup {u}, used |-> kube.used \cup {u}]
  /\ UNCHANGED <<fs, gc>>

\* a Workspace is gone from the API server
DeleteWorkspace(u) ==
  /\ u \in kube.live
  /\ kube' = [kube EXCEPT !.live = @ \ {u}]
  /\ UNCHANGED <<fs, gc>>

\* Connect of Workspace u: MkdirAll(tf/<UID>)
ConnectMkdir(u) ==
  /\ u \in kube.live
  /\ fs[u] = "none"
  /\ fs' = [fs EXCEPT ![u] = "dir"]
  /\ gc' = IF gc.phase \in {"remove", "end"}
           THEN [gc EXCEPT !.c.made = @ \cup {u}] ELSE gc
  /\ UNCHANGED kube

\* the ticker fires; its channel holds one tick
Tick ==
  /\ ~gc.tick
  /\ gc' = [gc EXCEPT !.tick = TRUE]
  /\ UNCHANGED <<kube, fs>>

\* the context of Run is cancelled
Cancel ==
  /\ ~gc.done
  /\ gc' = [gc EXCEPT !.done = TRUE]
  /\ UNCHANGED <<kube, fs>>

\* Run: case <-ctx.Done()
RunReturn ==
  /\ gc.phase = "wait" /\ gc.done
  /\ gc' = [gc EXCEPT !.phase = "returned"]
  /\ UNCHANGED <<kube, fs>>

\* Run: case <-t.C, collect is called
RunCollect ==
  /\ gc.phase = "wait" /\ gc.tick
  /\ gc' = [gc EXCEPT !.phase = "list", !.tick = FALSE, !.c = NoCycle]
  /\ UNCHANGED <<kube, fs>>

\* collect: gc.kube.List and the exists map
List ==
  /\ gc.phase = "list"
  /\ \E ok \in BOOLEAN :
       gc' = IF ok THEN [gc EXCEPT !.phase = "read", !.c.exists = kube.live]
             ELSE [gc EXCEPT !.phase = "end", !.c.err = <<errListWorkspaces>>]
  /\ UNCHANGED <<kube, fs>>

\* collect: gc.fs.ReadDir(gc.parentDir)
CollectReadDir ==
  /\ gc.phase = "read"
  /\ \E ok \in BOOLEAN :
       gc' = IF ok THEN [gc EXCEPT !.phase = "remove", !.c.fis = ReadDir(fs)]
             ELSE [gc EXCEPT !.phase = "end", !.c.err = <<errFmtReadDir, parentDir>>]
  /\ UNCHANGED <<kube, fs>>

\* collect: the loop up to and including the next RemoveAll
RemoveAll ==
  /\ gc.phase = "remove"
  /\ NextStale(gc.c) # 0
  /\ LET k == NextStale(gc.c)
         name == gc.c.fis[k].name
     IN \E ok \in BOOLEAN :
          /\ fs' = IF ok THEN [fs EXCEPT ![name] = "none"] ELSE fs
          /\ gc' = [gc EXCEPT
                      !.c.i = k + 1,
                      !.c.attempted = @ \cup {name},
                      !.c.removed = IF ok THEN @ \cup {name} ELSE @,
                      !.c.failed = IF ok THEN @ ELSE Append(@, Path(name)),
                      !.hit = IF ok /\ fs[name] = "dir" /\ name \in kube.live
                              THEN @ \cup {name} ELSE @]
  /\ UNCHANGED kube

\* collect: the loop is over, the failures are put into one error
CollectReturn ==
  /\ gc.phase = "remove"
  /\ NextStale(gc.c) = 0
  /\ gc' = [gc EXCEPT
              !.phase = "end",
              !.c.i = Len(gc.c.fis) + 1,
              !.c.err = IF Len(gc.c.failed) > 0
                        THEN <<errDeleteDirs>> \o gc.c.failed ELSE <<>>]
  /\ UNCHANGED <<kube, fs>>

\* (mutant) a Run that gives up after a failed collection
RunLogStopsOnError ==
  /\ gc.phase = "end"
  /\ gc' = [gc EXCEPT !.phase = IF gc.c.err = <<>> THEN "wait" ELSE "returned",
                      !.c = NoCycle,
                      !.last = [ran |-> TRUE, err |-> gc.c.err]]
  /\ UNCHANGED <<kube, fs>>

\* Run: the error of collect, if any, is logged and the loop goes on
RunLog ==
  /\ gc.phase = "end"
  /\ gc' = [gc EXCEPT !.phase = "wait", !.c = NoCycle,
                      !.last = [ran |-> TRUE, err |-> gc.c.err]]
  /\ UNCHANGED <<kube, fs>>

\* a step of the collector goroutine
GCStep ==
  \/ RunReturn \/ RunCollect \/ List \/ CollectReadDir \/ RemoveAll
  \/ CollectReturn \/ RunLog

\* a step of the collector or of its surroundings, the rest standing still
GC(A) == A /\ UNCHANGED <<recVars, lockVars, shardVars, run, unitVars>>

NextGC ==
  \/ GC(\E u \in UIDs : CreateWorkspace(u))
  \/ GC(\E u \in UIDs : DeleteWorkspace(u))
  \/ GC(\E u \in UIDs : ConnectMkdir(u))
  \/ GC(Tick)
  \/ GC(Cancel)
  \/ GC(RunReturn)
  \/ GC(RunCollect)
  \/ GC(List)
  \/ GC(CollectReadDir)
  \/ GC(RemoveAll)
  \/ GC(CollectReturn)
  \/ GC(RunLog)

(* ============================ runCommand =============================== *)
(* One harness operation under the context of its reconcile: runCommand    *)
(* starts a goroutine that runs c.Output() and sends the result on ch,     *)
(* and selects between ctx.Done() and ch.                                  *)

\* the harness operations that run a subprocess through runCommand
RunOps ==
  {"init", "diff", "apply", "destroy", "outputs", "resources", "workspace",
   "checksum"}

\* proc   "none": c.Process is nil, the goroutine has not started the
\*        subprocess; "failed": c.Start returned an error; "running";
\*        "exited": not waited for yet; "reaped": a Wait has returned
\* ps     cmd.ProcessState.ExitCode(), -1 while ProcessState is nil
\* main   "idle", "enter" (before the select), "select" (blocked in it),
\*        "ctx" / "res" (the case taken), "wait" (in c.Wait), "done",
\*        "panic"
\* late   the context was done before a subprocess of the operation exited
\* res    what the operation returned
\* hist   what runCommand returned for the commands of the operation so far
NoRun ==
  [op |-> "none", k |-> 0, ctx |-> "live", late |-> FALSE, proc |-> "none",
   code |-> 0, ps |-> -1, termed |-> FALSE, ch |-> "empty", main |-> "idle",
   res |-> "none", hist |-> <<>>]

InitRun == run = NoRun

\* errors.Wrap(ctx.Err(), errRunCommand), alone or wrapped once more with
\* the text of the Signal / Wait error
Cancelled == {"cancelled", "cancelled+sigterm", "cancelled+wait"}

\* a Workspace that gives up when `workspace select` fails
FinishSelectOnly(r, rc, ps) ==
  [r EXCEPT !.main = "done", !.ps = ps, !.hist = Append(r.hist, rc),
            !.res = IF r.op = "diff" /\ ps = 2 THEN "differs"
                    ELSE IF rc = "" THEN "ok" ELSE rc]

\* runCommand has returned error rc ("" for nil) and the operation goes on:
\* Workspace runs `workspace new` when `workspace select` returned any
\* error; Diff returns the plan and no error when the exit code is 2,
\* whatever runCommand returned; every operation else returns Classify(err),
\* which leaves an error that is no *exec.ExitError as it is
Finish(r, rc, ps) ==
  IF r.op = "workspace" /\ r.k = 1 /\ rc # ""
    THEN [NoRun EXCEPT !.op = r.op, !.k = 2, !.ctx = r.ctx, !.main = "enter",
                       !.late = r.late, !.hist = Append(r.hist, rc)]
    ELSE [r EXCEPT !.main = "done", !.ps = ps, !.hist = Append(r.hist, rc),
                   !.res = IF r.op = "diff" /\ ps = 2 THEN "differs"
                           ELSE IF rc = "" THEN "ok" ELSE rc]

\* a harness operation is called; the context may be done already
RunCall(o) ==
  /\ run.main = "idle"
  /\ run' = [run EXCEPT !.op = o, !.k = 1, !.main = "enter"]

\* the deadline of the reconcile elapses, or the provider is shut down; a
\* runCommand blocked in its select is woken with the ctx.Done() case
Deadline ==
  /\ run.ctx = "live" /\ run.main \notin {"done", "panic"}
  /\ run' = [run EXCEPT !.ctx = "done",
                         !.late = @ \/ run.proc = "running",
                         !.main = IF @ = "select" THEN "ctx" ELSE @]

\* the goroutine: c.Output() starts the subprocess, or fails to
CmdStart ==
  /\ run.main # "idle" /\ run.proc = "none" /\ run.ch = "empty"
  /\ \/ run' = [run EXCEPT !.proc = "running", !.late = @ \/ run.ctx = "done"]
     \/ run' = [run EXCEPT !.proc = "failed", !.ch = "full",
                            !.main = IF @ = "select" THEN "res" ELSE @]

\* the subprocess exits; -1: killed by the signal
CmdExit ==
  /\ run.proc = "running"
  /\ \E code \in ExitCodes :
       /\ code = -1 => run.termed
       /\ run' = [run EXCEPT !.proc = "exited", !.code = code]

\* the goroutine: the Wait of c.Output() returns and the result is sent
CmdOutput ==
  /\ run.proc = "exited" /\ run.ch = "empty"
  /\ run' = [run EXCEPT !.proc = "reaped", !.ps = run.code, !.ch = "full",
                         !.main = IF @ = "select" THEN "res" ELSE @]

\* runCommand reaches its select: it takes a case that is ready, else blocks
Select ==
  /\ run.main = "enter"
  /\ \/ run.ctx = "done" /\ run' = [run EXCEPT !.main = "ctx"]
     \/ run.ch = "full" /\ run' = [run EXCEPT !.main = "res"]
     \/ run.ctx = "live" /\ run.ch = "empty" /\ run' = [run EXCEPT !.main = "select"]

\* case <-ctx.Done(): c.Process.Signal(SIGTERM). c.Process is nil until
\* the goroutine has started the subprocess (a nil dereference); the
\* signal fails for a process that has been waited for
SelectDone ==
  /\ run.main = "ctx"
  /\ run' = IF run.proc \in {"none", "failed"} THEN [run EXCEPT !.main = "panic"]
            ELSE IF run.proc = "reaped" THEN Finish(run, "cancelled+sigterm", run.ps)
            ELSE [run EXCEPT !.termed = TRUE, !.main = "wait"]

\* c.Wait() returns once the subprocess has exited: nil for the state of a
\* subprocess that exited with 0, else an error (an *exec.ExitError, "Wait
\* was already called", or the error of a lost race with the goroutine)
CmdWait ==
  /\ run.main = "wait" /\ run.proc \in {"exited", "reaped"}
  /\ \/ /\ run.proc = "exited"
        /\ run' = Finish([run EXCEPT !.proc = "reaped"],
                          IF run.code = 0 THEN "cancelled" ELSE "cancelled+wait",
                          run.code)
     \/ /\ run.proc = "reaped"
        /\ run' = Finish(run, "cancelled+wait", run.ps)

\* case res := <-ch: what c.Output() returned
SelectRes ==
  /\ run.main = "res"
  /\ run' = Finish(run, IF run.proc = "failed" THEN "start"
                        ELSE IF run.code = 0 THEN "" ELSE "exit", run.ps)

\* a step of the harness operation, the rest of the provider standing still
Run(A) == A /\ UNCHANGED <<recVars, lockVars, gcVars, shardVars, unitVars>>

NextRun ==
  \/ Run(\E o \in RunOps : RunCall(o))
  \/ Run(Deadline)
  \/ Run(CmdStart)
  \/ Run(CmdExit)
  \/ Run(CmdOutput)
  \/ Run(Select)
  \/ Run(SelectDone)
  \/ Run(CmdWait)
  \/ Run(SelectRes)

(* ======================== error classification ========================= *)

\* the characters of a captured stderr: the substring "Error: ", an upper-case
\* letter, a lower-case letter and the line feed
StderrChars == {"Error: ", "U", "l", "\n"}
Stderrs == UNION {[1..n -> StderrChars] : n \in 0..MaxStderr}
\* the errors a harness operation hands to Classify
TfErrors ==
  {[kind |-> "ExitError", Stderr |-> t] : t \in Stderrs}
    \cup {[kind |-> "other", Stderr |-> <<>>]}

\* the end of the line that position i of the text is on
LineEnd(text, i) ==
  LET nl == {j \in i..Len(text) : text[j] = "\n"}
  IN IF nl = {} THEN Len(text) + 1 ELSE CHOOSE j \in nl : \A k \in nl : j <= k

\* tfError.FindSubmatch for `Error: (.+)\n`: the leftmost "Error: " that is
\* followed by at least one character other than a line feed and then by a
\* line feed; the group is everything up to that line feed
tfErrorFindSubmatch(text) ==
  LET at == {i \in 1..Len(text) :
               /\ text[i] = "Error: "
               /\ LineEnd(text, i) <= Len(text)
               /\ LineEnd(text, i) > i + 1}
  IN IF at = {} THEN <<>>
     ELSE LET i == CHOOSE x \in at : \A y \in at : x <= y
          IN <<SubSeq(text, i, LineEnd(text, i)),
               SubSeq(text, i + 1, LineEnd(text, i) - 1)>>

\* bytes.ToLower
ToLower(text) ==
  [i \in 1..Len(text) |->
     CASE text[i] = "U" -> "l"
       [] text[i] = "Error: " -> "error: "
       [] OTHER -> text[i]]

\* (mutant) the summary is lower-cased, as Classify once did
formatTerraformErrorOutputLower(errorOutput) ==
  LET m == tfErrorFindSubmatch(errorOutput)
  IN [summary |-> IF Len(m) > 1 THEN ToLower(m[2]) ELSE <<>>,
      base64FullErr |-> <<"base64", "gzip">> \o errorOutput]

\* formatTerraformErrorOutput: the summary and the gzip + base64 of the text
formatTerraformErrorOutput(errorOutput) ==
  LET m == tfErrorFindSubmatch(errorOutput)
  IN [summary |-> IF Len(m) > 1 THEN m[2] ELSE <<>>,
      base64FullErr |-> <<"base64", "gzip">> \o errorOutput]

\* Classify: an error that is no exec.ExitError is returned as it is
Classify(err) ==
  IF err.kind # "ExitError" THEN err
  ELSE LET f == formatTerraformErrorOutput(err.Stderr)
       IN [kind |-> "errorString", summary |-> f.summary,
           base64FullErr |-> f.base64FullErr]

NoErr == [kind |-> "nil"]

InitClassifyCall == cls \in [err : TfErrors, ret : {NoErr}]

\* Classify is called and returns
ClassifyCall ==
  /\ cls.ret = NoErr
  /\ cls' = [cls EXCEPT !.ret = Classify(cls.err)]
  /\ UNCHANGED <<inv, boot, osenv, entry>>

(* ========================== terraform options ========================== *)

\* spec.forProvider.vars: key=value pairs
VarPairs == {"region=eu", "env=dev"}
\* spec.forProvider.varFiles: the source kind and the declared format
VarFileSources == {"ConfigMapKey", "SecretKey"}
FileFormats == {"nil", "HCL", "JSON"}
VarFileRefs == [Source : VarFileSources, Format : FileFormats]
\* cm.Data[r.Key] and s.Data[r.Key] of the referenced objects
RefData(vf) == IF vf.Source = "ConfigMapKey" THEN "cm.Data" ELSE "s.Data"
\* json.Marshal(p.VarMap)
VarMaps == {"nil", "{\"a\":1}"}
\* the phase arguments of the Quickstart example
PlanArgs == <<"-parallelism=2">>
ApplyArgs == <<"-target=specificresource">>
DestroyArgs == <<"-refresh=false">>
Phases == {"plan", "apply", "destroy"}
SeqsUpTo(S, n) == UNION {[1..k -> S] : k \in 0..n}
WorkspaceParameters ==
  [Vars : SeqsUpTo(VarPairs, MaxVars), VarFiles : SeqsUpTo(VarFileRefs, MaxVarFiles),
   VarMap : VarMaps]

\* terraform.options before any Option is applied
NoOptions == [args |-> <<>>, varFiles |-> <<>>]
WithArgs(o, v) == [o EXCEPT !.args = @ \o v]
WithVar(o, kv) == [o EXCEPT !.args = Append(@, <<"-var", kv>>)]
\* the file is named crossplane-provider-terraform-<n>.tfvars[.json]
WithVarFile(o, data, f) ==
  LET filename == [n |-> Len(o.varFiles), json |-> f = "JSON"]
  IN [args |-> Append(o.args, <<"-var-file", filename>>),
      varFiles |-> Append(o.varFiles, [data |-> data, filename |-> filename])]

RECURSIVE WithVars(_, _)
WithVars(o, vs) ==
  IF vs = <<>> THEN o ELSE WithVars(WithVar(o, Head(vs)), Tail(vs))
RECURSIVE WithVarFiles(_, _)
WithVarFiles(o, vfs) ==
  IF vfs = <<>> THEN o
  ELSE WithVarFiles(
         WithVarFile(o, RefData(Head(vfs)),
                     IF Head(vfs).Format = "JSON" THEN "JSON" ELSE "HCL"),
         Tail(vfs))

\* (mutant) the JSON variable map is put before the variable files
optionsVarMapFirst(p) ==
  LET inline == WithVars(NoOptions, p.Vars)
      vmap == IF p.VarMap = "nil" THEN inline
              ELSE WithVarFile(inline, p.VarMap, "JSON")
  IN WithVarFiles(vmap, p.VarFiles)

\* external.options with every kube.Get succeeding, the Options applied in
\* the order in which the harness applies them
options(p) ==
  LET files == WithVarFiles(WithVars(NoOptions, p.Vars), p.VarFiles)
  IN IF p.VarMap = "nil" THEN files ELSE WithVarFile(files, p.VarMap, "JSON")

PhaseArgs(phase) ==
  CASE phase = "plan" -> PlanArgs
    [] phase = "apply" -> ApplyArgs
    [] phase = "destroy" -> DestroyArgs

\* the fixed arguments of Diff, Apply and Destroy
DefaultArgs(phase) ==
  CASE phase = "plan" ->
         <<"plan", "-no-color", "-input=false", "-detailed-exitcode", "-lock=false">>
    [] phase = "apply" -> <<"apply", "-no-color", "-auto-approve", "-input=false">>
    [] phase = "destroy" -> <<"destroy", "-no-color", "-auto-approve", "-input=false">>

NoInv(p) ==
  [p |-> p, phase |-> "none", pc |-> "idle", ao |-> NoOptions, dir |-> <<>>,
   cmd |-> <<>>, err |-> ""]

InitInvocation == \E p \in WorkspaceParameters : inv = NoInv(p)

\* checkDiff / Update / Delete up to the call of the harness: external.options
\* (a kube.Get of a referenced object may fail) and the phase arguments
OptionsCall(phase) ==
  /\ inv.pc = "idle"
  /\ \E getOK \in BOOLEAN :
       IF ~getOK /\ inv.p.VarFiles # <<>>
       THEN inv' = [inv EXCEPT !.phase = phase, !.pc = "done", !.err = errOptions]
       ELSE inv' = [inv EXCEPT !.phase = phase, !.pc = "write",
                               !.ao = WithArgs(options(inv.p), PhaseArgs(phase))]

\* Diff / Apply / Destroy: os.WriteFile of the next variable file
WriteVarFile ==
  /\ inv.pc = "write"
  /\ Len(inv.dir) < Len(inv.ao.varFiles)
  /\ \E writeOK \in BOOLEAN :
       IF writeOK
       THEN inv' = [inv EXCEPT !.dir = Append(@, inv.ao.varFiles[Len(inv.dir) + 1])]
       ELSE inv' = [inv EXCEPT !.pc = "done", !.err = errWriteVarFile]

\* Diff / Apply / Destroy: the subprocess is started
ExecCommand ==
  /\ inv.pc = "write"
  /\ Len(inv.dir) = Len(inv.ao.varFiles)
  /\ inv' = [inv EXCEPT !.pc = "started",
                        !.cmd = DefaultArgs(inv.phase) \o inv.ao.args]

(* ========================== controller setup =========================== *)

errDeploymentEnvVarsNotSet == "POD_NAMESPACE or POD_NAME environment variable is not set"
errInitKubernetesInformerClient == "cannot init Kubernetes informer client"
errGetCurrentPod == "cannot get current pod"
errSetupInformer == "cannot setup informer"
errSetupController == "cannot setup controller"

\* values of the POD_NAMESPACE and POD_NAME variables: unset, blank, set
EnvValues == {"", " ", "name"}
TrimSpace(v) == IF v = " " THEN "" ELSE v

\* what the provider is started with, and what its calls will answer
Boots ==
  [sharding : BOOLEAN, POD_NAMESPACE : EnvValues, POD_NAME : EnvValues,
   clientset : BOOLEAN, podGet : BOOLEAN, owners : 0..1, informers : BOOLEAN,
   controllers : BOOLEAN]

\* identity.Setup: the error it returns, "" for none, "panic" for the index
\* into the empty OwnerReferences of the pod
identitySetup(b) ==
  CASE TrimSpace(b.POD_NAMESPACE) = "" \/ TrimSpace(b.POD_NAME) = "" ->
         errDeploymentEnvVarsNotSet
    [] OTHER ->
         IF ~b.clientset THEN errInitKubernetesInformerClient
         ELSE IF ~b.podGet THEN errGetCurrentPod
         ELSE IF b.owners = 0 THEN "panic"
         ELSE IF ~b.informers THEN errSetupInformer
         ELSE ""

\* controller.Setup: identity.Setup when sharding is enabled, then the setup
\* of the ProviderConfig and the Workspace controllers
controllerSetup(b) ==
  LET e == IF b.sharding THEN identitySetup(b) ELSE ""
  IN IF e # "" THEN e
     ELSE IF ~b.controllers THEN errSetupController
     ELSE ""

NoBoot(b) == [in |-> b, pc |-> "main", err |-> "", retry |-> FALSE]
InitBoot == \E b \in Boots : boot = NoBoot(b)

\* main calls controller.Setup
SetupCall ==
  /\ boot.pc = "main"
  /\ boot' = [boot EXCEPT !.err = controllerSetup(boot.in),
                          !.pc = IF controllerSetup(boot.in) = "panic"
                                 THEN "crashed" ELSE "setup"]

\* kingpin.FatalIfError: the process exits with the error
FatalIfError ==
  /\ boot.pc = "setup"
  /\ boot.err # ""
  /\ boot' = [boot EXCEPT !.pc = "exited"]

\* mgr.Start
MgrStart ==
  /\ boot.pc = "setup"
  /\ boot.err = ""
  /\ boot' = [boot EXCEPT !.pc = "running"]

(* ===================== Connect and the environment ===================== *)
(* connector.Connect of several reconcile goroutines, as far as the        *)
(* process environment goes: os.Setenv("GIT_CRED_DIR", /tmp/tf/<UID>) for  *)
(* a ProviderConfig with a .git-credentials entry, the fetch of a remote   *)
(* module by go-getter, and terraform init, whose environment is copied    *)
(* from os.Environ().                                                      *)

\* the Workspaces under reconciliation, by UID; 0 stands for "unset"
ConnWs == 1..NProcs
NoConnect == [w |-> 0, creds |-> FALSE, remote |-> FALSE, pc |-> "idle", saw |-> {}]

InitEnv == osenv = [GIT_CRED_DIR |-> 0, c |-> [p \in Procs |-> NoConnect]]

\* the managed reconciler calls Connect for a Workspace that no other
\* goroutine reconciles
ConnectCall(p) ==
  /\ osenv.c[p].pc = "idle"
  /\ \E w \in ConnWs, creds \in BOOLEAN, remote \in BOOLEAN :
       /\ \A q \in Procs : osenv.c[q].pc # "idle" => osenv.c[q].w # w
       /\ osenv' = [osenv EXCEPT !.c[p] =
                      [w |-> w, creds |-> creds, remote |-> remote, pc |-> "creds",
                       saw |-> {}]]

\* the loop over the credentials: a .git-credentials entry is extracted
\* (which may fail) and GIT_CRED_DIR is set to the directory of the Workspace
Setenv(p) ==
  /\ osenv.c[p].pc = "creds"
  /\ \E ok \in BOOLEAN :
       IF ~osenv.c[p].creds THEN osenv' = [osenv EXCEPT !.c[p].pc = "source"]
       ELSE IF ~ok THEN osenv' = [osenv EXCEPT !.c[p] = NoConnect]
       ELSE osenv' = [osenv EXCEPT !.GIT_CRED_DIR = osenv.c[p].w,
                                   !.c[p].pc = "source"]

\* the module: getter.Client.Get for a remote source runs git with the
\* environment of the process; an inline module is written to main.tf
GetModule(p) ==
  /\ osenv.c[p].pc = "source"
  /\ osenv' = [osenv EXCEPT
                 !.c[p].pc = "init",
                 !.c[p].saw = IF osenv.c[p].remote THEN @ \cup {osenv.GIT_CRED_DIR}
                              ELSE @]

\* the checksum test and, unless it matches, tf.Init: the subprocess gets
\* os.Environ()
TfInit(p) ==
  /\ osenv.c[p].pc = "init"
  /\ \E skip \in BOOLEAN :
       osenv' = [osenv EXCEPT
                   !.c[p].pc = "done",
                   !.c[p].saw = IF skip THEN @ ELSE @ \cup {osenv.GIT_CRED_DIR}]

\* Connect returns
ConnectReturn(p) ==
  /\ osenv.c[p].pc = "done"
  /\ osenv' = [osenv EXCEPT !.c[p].pc = "idle"]

(* ============================ entrypoint =============================== *)

\* the characters of spec.forProvider.entrypoint: a dot, a slash, a letter
EntryChars == {".", "/", "a"}
Entrypoints == UNION {[1..n -> EntryChars] : n \in 0..MaxEntrypoint}

\* the WorkDir /tf/<UID> as path elements
WorkDir == <<"tf", "UID">>

\* strings.ReplaceAll(s, "../", ""): one pass from the left over the
\* occurrences that do not overlap
RECURSIVE ReplaceAllDotDotSlash(_)
ReplaceAllDotDotSlash(str) ==
  IF Len(str) < 3 THEN str
  ELSE IF SubSeq(str, 1, 3) = <<".", ".", "/">>
    THEN ReplaceAllDotDotSlash(SubSeq(str, 4, Len(str)))
  ELSE <<Head(str)>> \o ReplaceAllDotDotSlash(Tail(str))

\* the elements of a path between its slashes
RECURSIVE Elements(_)
Elements(str) ==
  LET sl == {i \in 1..Len(str) : str[i] = "/"}
  IN IF sl = {} THEN <<str>>
     ELSE LET i == CHOOSE x \in sl : \A y \in sl : x <= y
          IN <<SubSeq(str, 1, i - 1)>> \o Elements(SubSeq(str, i + 1, Len(str)))

\* filepath.Clean of a rooted path given by its elements: empty elements
\* and "." are dropped, ".." removes the element before it and is dropped at
\* the root
RECURSIVE Clean(_, _)
Clean(done, rest) ==
  IF rest = <<>> THEN done
  ELSE LET e == Head(rest) IN
    IF e = <<>> \/ e = <<".">> THEN Clean(done, Tail(rest))
    ELSE IF e = <<".", ".">>
      THEN IF done # <<>>
             THEN Clean(SubSeq(done, 1, Len(done) - 1), Tail(rest))
             ELSE Clean(done, Tail(rest))
    ELSE Clean(Append(done, e), Tail(rest))

\* filepath.Join(dir, entrypoint)
Join(dir, str) == Clean(dir, Elements(str))

\* (mutant) the entrypoint joined as the user wrote it
EntrypointDirUnfiltered(Entrypoint) ==
  IF Len(Entrypoint) > 0 THEN Join(WorkDir, Entrypoint) ELSE WorkDir

\* the directory Connect hands to the harness and writes the credentials,
\* the configuration and the backend file to
EntrypointDir(Entrypoint) ==
  IF Len(Entrypoint) > 0
    THEN Join(WorkDir, ReplaceAllDotDotSlash(Entrypoint))
    ELSE WorkDir

NoEntry(e) == [Entrypoint |-> e, dir |-> <<>>, pc |-> "connect"]
InitEntry == \E e \in Entrypoints : entry = NoEntry(e)

\* Connect, from the entrypoint to the harness: the files are written to
\* dir and the harness runs terraform in it
ConnectDir ==
  /\ entry.pc = "connect"
  /\ entry' = [entry EXCEPT !.dir = EntrypointDir(entry.Entrypoint), !.pc = "done"]

(* ------------------------- single-call models -------------------------- *)
\* no call of the single-call models is followed
NoClassify == cls = [err |-> [kind |-> "other", Stderr |-> <<>>], ret |-> NoErr]
NoInvocation == inv = NoInv([Vars |-> <<>>, VarFiles |-> <<>>, VarMap |-> "nil"])
NoBootFollowed ==
  boot = [in |-> [sharding |-> FALSE, POD_NAMESPACE |-> "", POD_NAME |-> "",
                  clientset |-> TRUE, podGet |-> TRUE, owners |-> 1,
                  informers |-> TRUE, controllers |-> TRUE],
          pc |-> "running", err |-> "", retry |-> FALSE]
NoEntryFollowed == entry = [Entrypoint |-> <<>>, dir |-> WorkDir, pc |-> "done"]
InitUnit == NoClassify /\ NoInvocation /\ NoBootFollowed /\ InitEnv /\ NoEntryFollowed

(* ============================ sharding ================================= *)
(* utils.HashAndModulo, the identity a replica derives from its ReplicaSet *)
(* and sibling pods (internal/controller/identity), and the ownership test *)
(* of shardingReconciler.Reconcile.                                        *)

\* bytes of identifier strings: '-', '0', 'a', 'f'
Bytes == {45, 48, 97, 102}
Identifiers == UNION {[1..n -> Bytes] : n \in 0..MaxIdLen}
\* widths of Go's int
IntSizes == {32, 64}

RECURSIVE XorBits(_, _, _)
XorBits(a, b, n) ==
  IF n = 0 THEN 0
  ELSE (((a % 2) + (b % 2)) % 2) + 2 * XorBits(a \div 2, b \div 2, n - 1)

\* a uint32 is kept as two 16-bit halves
fnvOffset32 == [hi |-> 33052, lo |-> 40389]
fnvPrime32Low == 403

\* one byte of FNV-1a: hash ^= c; hash *= 16777619 (= 2^24 + 403), mod 2^32
fnvWrite(hash, c) ==
  LET lo  == (hash.lo \div 256) * 256 + XorBits(hash.lo % 256, c, 8)
      mul == lo * fnvPrime32Low
  IN [lo |-> mul % 65536,
      hi |-> (hash.hi * fnvPrime32Low + mul \div 65536 + (lo % 256) * 256) % 65536]

RECURSIVE fnvWriteAll(_, _, _)
fnvWriteAll(hash, str, i) ==
  IF i > Len(str) THEN hash ELSE fnvWriteAll(fnvWrite(hash, str[i]), str, i + 1)

\* fnv.New32a, Write, Sum32
Sum32(str) == fnvWriteAll(fnvOffset32, str, 1)

\* int(hash): the uint32 converted to an int of the given width, as sign
\* and magnitude; a 32-bit int wraps the values from 2^31 on
ToInt(hash, intSize) ==
  IF intSize = 32 /\ hash.hi >= 32768
    THEN IF hash.lo = 0 THEN [neg |-> TRUE, hi |-> 65536 - hash.hi, lo |-> 0]
         ELSE [neg |-> TRUE, hi |-> 65535 - hash.hi, lo |-> 65536 - hash.lo]
    ELSE [neg |-> FALSE, hi |-> hash.hi, lo |-> hash.lo]

Abs(x) == IF x < 0 THEN -x ELSE x

\* Go's %: the remainder of the truncated division, with the dividend's sign
Rem(i, modulo) ==
  LET m == Abs(modulo)
      r == ((i.hi % m) * (65536 % m) + i.lo) % m
  IN IF i.neg THEN -r ELSE r

\* (mutant) a hash that is not reduced by the modulo
HashAndModuloUnreduced(str, modulo, intSize) == Sum32(str).lo % 256

\* utils.HashAndModulo, modulo # 0 (a zero modulo panics)
HashAndModulo(str, modulo, intSize) == Rem(ToInt(Sum32(str), intSize), modulo)

InitHash ==
  call \in [str : Identifiers, modulo : 1..MaxReplicas, intSize : IntSizes,
            ret : {0}, done : {FALSE}]

\* HashAndModulo is called and returns
HashCall ==
  /\ ~call.done
  /\ call' = [call EXCEPT !.ret = HashAndModulo(call.str, call.modulo, call.intSize),
                          !.done = TRUE]
  /\ UNCHANGED <<cluster, rep, req>>

\* the pods a ReplicaSet may own over time, named so that 1 < 2 < ...
PodNames == 1..(MaxReplicas + 1)
\* spec.replicas of the ReplicaSet
Sizes == 0..MaxReplicas
\* strconv.IntSize of the released builds (PLATFORMS linux_amd64 linux_arm64)
IntSize == 64
\* pods of another ReplicaSet that carry the same pkg.crossplane.io/revision
\* label, such as the previous ReplicaSet of the provider's Deployment; the
\* name sorts before the names of PodNames
OtherPods == {0}
\* UIDs of the ProviderConfigs handed to Reconcile
ProviderConfigs == {id \in Identifiers : Len(id) = 1}

\* no Reconcile has been called yet
NoReq ==
  [p |-> 0, c |-> <<>>, phase |-> "idle", result |-> "none", get |-> "none",
   seen |-> <<>>, own |-> <<>>]

\* a pod that does not run: identity.Setup starts from index -1, replicas -1
Down ==
  [up |-> FALSE, index |-> -1, replicas |-> -1, lister |-> {}, rsq |-> <<>>,
   podq |-> <<>>, handling |-> FALSE]

\* the pods of a set in the order of sort.Slice by name
RECURSIVE SortByName(_)
SortByName(pods) ==
  IF pods = {} THEN <<>>
  ELSE LET m == CHOOSE x \in pods : \A y \in pods : x <= y
       IN <<m>> \o SortByName(pods \ {m})

\* the loop of podHandlerFunc: the position of podName, else -1 is kept
IndexOf(pods, podName) ==
  LET sorted == SortByName(pods)
      is == {i \in 1..Len(sorted) : sorted[i] = podName}
  IN IF is = {} THEN -1 ELSE (CHOOSE i \in is : TRUE) - 1

InitIdent ==
  /\ cluster = [size |-> 1, pods |-> {}, used |-> {}, others |-> {}, n |-> 0,
                sharding |-> TRUE]
  /\ rep = [p \in PodNames |-> Down]
  /\ req = NoReq

InitShard ==
  /\ call = [str |-> <<>>, modulo |-> 1, intSize |-> IntSize, ret |-> 0, done |-> FALSE]
  /\ InitIdent

\* the watch of every running replica receives the event
Notify(r, field, ev) ==
  [p \in PodNames |-> IF r[p].up THEN [r[p] EXCEPT ![field] = Append(@, ev)] ELSE r[p]]

\* spec.replicas of the ReplicaSet is changed
Scale(k) ==
  /\ cluster.n < MaxChanges
  /\ k # cluster.size
  /\ cluster' = [cluster EXCEPT !.size = k, !.n = @ + 1]
  /\ rep' = Notify(rep, "rsq", k)
  /\ UNCHANGED <<call, req>>

\* the ReplicaSet controller starts a pod; its provider starts its informers,
\* which first list the ReplicaSet and the pods that exist: all of them go
\* into the store, those that pass podFilterFunc are handed to the handler
PodStart(p) ==
  /\ cluster.n < MaxChanges
  /\ p \notin cluster.used
  /\ Cardinality(cluster.pods) < cluster.size
  /\ cluster' = [cluster EXCEPT !.pods = @ \cup {p}, !.used = @ \cup {p}, !.n = @ + 1]
  /\ rep' = [Notify(rep, "podq", [pod |-> p, del |-> FALSE]) EXCEPT
               ![p] = [Down EXCEPT
                         !.up = TRUE,
                         !.lister = cluster.others,
                         !.rsq = <<cluster.size>>,
                         !.podq = LET ps == SortByName(cluster.pods \cup {p})
                                  IN [i \in 1..Len(ps) |-> [pod |-> ps[i], del |-> FALSE]]]]
  /\ UNCHANGED <<call, req>>

\* a pod goes away: scaled down, evicted or crashed
PodStop(p) ==
  /\ cluster.n < MaxChanges
  /\ p \in cluster.pods
  /\ cluster' = [cluster EXCEPT !.pods = @ \ {p}, !.n = @ + 1]
  /\ rep' = [Notify(rep, "podq", [pod |-> p, del |-> TRUE]) EXCEPT ![p] = Down]
  /\ UNCHANGED <<call, req>>

\* a pod of another ReplicaSet appears or disappears: the informer stores
\* it (the informer watches the namespace), podFilterFunc keeps the event
\* from podHandlerFunc
OtherPodStart(q) ==
  /\ cluster.n < MaxChanges
  /\ q \notin cluster.others
  /\ cluster' = [cluster EXCEPT !.others = @ \cup {q}, !.n = @ + 1]
  /\ rep' = [p \in PodNames |->
               IF rep[p].up THEN [rep[p] EXCEPT !.lister = @ \cup {q}] ELSE rep[p]]
  /\ UNCHANGED <<call, req>>

OtherPodStop(q) ==
  /\ cluster.n < MaxChanges
  /\ q \in cluster.others
  /\ cluster' = [cluster EXCEPT !.others = @ \ {q}, !.n = @ + 1]
  /\ rep' = [p \in PodNames |->
               IF rep[p].up THEN [rep[p] EXCEPT !.lister = @ \ {q}] ELSE rep[p]]
  /\ UNCHANGED <<call, req>>

\* replicaSetHandlerFunc, on add and on update; identity.Setup installs the
\* informers only when the sharding feature is enabled
replicaSetHandlerFunc(p) ==
  /\ cluster.sharding
  /\ rep[p].up /\ rep[p].rsq # <<>>
  /\ rep' = [rep EXCEPT ![p].replicas = Head(rep[p].rsq), ![p].rsq = Tail(@)]
  /\ UNCHANGED <<call, cluster, req>>

\* podHandlerFunc, on add and on delete, up to `identityHolder.index = -1`;
\* the informer has put the event into its store
podHandlerReset(p) ==
  /\ cluster.sharding
  /\ rep[p].up /\ rep[p].podq # <<>> /\ ~rep[p].handling
  /\ LET ev == Head(rep[p].podq) IN
       rep' = [rep EXCEPT
                 ![p].lister = IF ev.del THEN @ \ {ev.pod} ELSE @ \cup {ev.pod},
                 ![p].podq = Tail(@),
                 ![p].index = -1,
                 ![p].handling = TRUE]
  /\ UNCHANGED <<call, cluster, req>>

\* podHandlerFunc, from the Lister().List on
podHandlerList(p) ==
  /\ rep[p].up /\ rep[p].handling
  /\ rep' = [rep EXCEPT ![p].index = IndexOf(rep[p].lister, p),
                        ![p].handling = FALSE]
  /\ UNCHANGED <<call, cluster, req>>

\* what r.client.Get of the ProviderConfig returns
GetOutcomes == {"ok", "notfound", "err"}

\* shardingReconciler.Reconcile of replica p as the check of line 89 decides
\* it (requeue after 30 seconds), but returning Result{} and no error
ReconcileCheckDrops(p, c) ==
  /\ rep[p].up /\ req.phase = "idle"
  /\ \E get \in GetOutcomes :
       LET r == [NoReq EXCEPT !.p = p, !.c = c, !.phase = "done"]
           s == [r EXCEPT !.get = get]
       IN req' =
            IF ~cluster.sharding THEN [r EXCEPT !.result = "reconcile"]
            ELSE IF get = "err" THEN [s EXCEPT !.result = "error"]
            ELSE IF get = "notfound" THEN [s EXCEPT !.result = "skip"]
            ELSE IF rep[p].index < 0 \/ rep[p].replicas < 1
              THEN [s EXCEPT !.result = "skip",
                             !.seen = <<rep[p].index, rep[p].replicas>>]
              ELSE [s EXCEPT !.phase = "checked",
                             !.seen = <<rep[p].index, rep[p].replicas>>]
  /\ UNCHANGED <<call, cluster, rep>>

\* shardingReconciler.Reconcile of replica p, up to the validity check of
\* the identity. Without an identity (sharding disabled) the underlying
\* reconciler is called at once. Otherwise the ProviderConfig is read: an
\* error is returned wrapped, a NotFound is ignored (Result{}, nil); then an
\* identity with index < 0 or replicas < 1 requeues after 30 seconds.
\* result: "error" (Result{}, err), "skip" (Result{}, nil), "requeue"
\* (RequeueAfter, nil), "reconcile" (what r.reconciler.Reconcile returns).
ReconcileCheck(p, c) ==
  /\ rep[p].up /\ req.phase = "idle"
  /\ \E get \in GetOutcomes :
       LET r == [NoReq EXCEPT !.p = p, !.c = c, !.phase = "done"]
           s == [r EXCEPT !.get = get]
       IN req' =
            IF ~cluster.sharding THEN [r EXCEPT !.result = "reconcile"]
            ELSE IF get = "err" THEN [s EXCEPT !.result = "error"]
            ELSE IF get = "notfound" THEN [s EXCEPT !.result = "skip"]
            ELSE IF rep[p].index < 0 \/ rep[p].replicas < 1
              THEN [s EXCEPT !.result = "requeue",
                             !.seen = <<rep[p].index, rep[p].replicas>>]
              ELSE [s EXCEPT !.phase = "checked",
                             !.seen = <<rep[p].index, rep[p].replicas>>]
  /\ UNCHANGED <<call, cluster, rep>>

\* the ownership test of line 94 with its comparison turned around
ReconcileOwnInverted ==
  /\ req.phase = "checked"
  /\ LET r == rep[req.p] IN
       req' = [req EXCEPT !.phase = "done",
                 !.own = IF r.up THEN <<r.index, r.replicas>> ELSE <<>>,
                 !.result =
                 IF ~r.up THEN "stopped"
                 ELSE IF r.replicas = 0 THEN "panic"
                 ELSE IF HashAndModulo(req.c, r.replicas, IntSize) = r.index THEN "skip"
                 ELSE "reconcile"]
  /\ UNCHANGED <<call, cluster, rep>>

\* shardingReconciler.Reconcile from the ownership test on; a replica that
\* was stopped meanwhile decides nothing. The test reads the replica count
\* and the index again (own), divides by the count (a count of 0 panics),
\* and returns Result{} and no error unless the remainder is the index.
ReconcileOwn ==
  /\ req.phase = "checked"
  /\ LET r == rep[req.p] IN
       req' = [req EXCEPT !.phase = "done",
                 !.own = IF r.up THEN <<r.index, r.replicas>> ELSE <<>>,
                 !.result =
                 IF ~r.up THEN "stopped"
                 ELSE IF r.replicas = 0 THEN "panic"
                 ELSE IF HashAndModulo(req.c, r.replicas, IntSize) # r.index THEN "skip"
                 ELSE "reconcile"]
  /\ UNCHANGED <<call, cluster, rep>>

\* the ownership test of Reconcile passes on replica p for ProviderConfig c
Accepts(p, c) ==
  /\ rep[p].up /\ rep[p].index >= 0 /\ rep[p].replicas >= 1
  /\ HashAndModulo(c, rep[p].replicas, IntSize) = rep[p].index

Init == InitRec /\ InitLock /\ InitGC /\ InitShard /\ InitRun /\ InitUnit

\* SpecLock looks at the harness only: the Workspace is fixed
InitL == Init /\ cr.module = 1 /\ cr.name = "ws"

\* a step of the reconcile loop, the rest of the provider standing still
Rec(A) == A /\ UNCHANGED <<lockVars, gcVars, shardVars, run, unitVars>>

Next ==
  \/ Rec(UserEdit)
  \/ Rec(Tombstone)
  \/ Rec(Connect)
  \/ Rec(Observe)
  \/ Rec(Create)
  \/ Rec(Update)
  \/ Rec(Delete)
  \/ Rec(Requeue)

Spec == Init /\ [][Next]_vars

\* a Connect / an Observe that returns no error
ConnectOK == Connect /\ conn'.err = ""
ObserveOK == Observe /\ obs'.err = ""

\* The managed reconciler requeues the Workspace after every reconcile, and
\* a handler that is retried forever does not fail forever.
Fairness ==
  /\ WF_vars(Rec(Requeue))
  /\ SF_vars(Rec(ConnectOK))
  /\ SF_vars(Rec(ObserveOK))

\* SpecLive follows one Workspace whose module the user leaves alone
InitLive == Init /\ cr.module = 1

NextLive ==
  \/ Rec(Tombstone)
  \/ Rec(Connect)
  \/ Rec(Observe)
  \/ Rec(Create)
  \/ Rec(Update)
  \/ Rec(Delete)
  \/ Rec(Requeue)

SpecLive == InitLive /\ [][NextLive]_vars /\ Fairness

NextLock ==
  \E p \in Procs :
    /\ \/ Call(p) \/ LockAnnounce(p) \/ LockAcquire(p) \/ RLock(p)
       \/ Start(p) \/ Exit(p)
    /\ UNCHANGED <<recVars, gcVars, shardVars, run, unitVars>>

SpecLock == InitL /\ [][NextLock]_vars

\* a step of the harness alone
Lock(A) == A /\ UNCHANGED <<recVars, gcVars, shardVars, run, unitVars>>

\* every subprocess is started and terminates; sync.RWMutex hands the lock to
\* a goroutine that waits for it: a blocked Lock is served once the writer
\* before it unlocks (sync.Mutex starvation mode), blocked readers are woken
\* by that Unlock, and a pending Lock gets the mutex when the readers that
\* were active have left
LockFairness ==
  \A p \in Procs :
    /\ WF_vars(Lock(Start(p)))
    /\ WF_vars(Lock(Exit(p)))
    /\ SF_vars(Lock(LockAnnounce(p)))
    /\ WF_vars(Lock(LockAcquire(p)))
    /\ SF_vars(Lock(RLock(p)))

SpecLockLive == InitL /\ [][NextLock]_vars /\ LockFairness


\* the Go scheduler lets the collector goroutine run
SpecGC == InitL /\ [][NextGC]_vars /\ WF_vars(GC(GCStep))

\* one call of HashAndModulo, its arguments drawn from the bounded sets
InitH ==
  /\ InitRec /\ cr.module = 1 /\ cr.name = "ws"
  /\ InitLock /\ InitGC /\ InitHash /\ InitIdent /\ InitRun /\ InitUnit

NextHash == HashCall /\ UNCHANGED <<recVars, lockVars, gcVars, run, unitVars>>

SpecHash == InitH /\ [][NextHash]_vars

\* a harness operation from its call to its return
SpecRun == InitL /\ [][NextRun]_vars

\* one call of Classify, its error drawn from the bounded set
InitClassify ==
  /\ InitRec /\ cr.module = 1 /\ cr.name = "ws"
  /\ InitLock /\ InitGC /\ InitShard /\ InitRun
  /\ InitClassifyCall /\ NoInvocation /\ NoBootFollowed /\ InitEnv
  /\ NoEntryFollowed

NextClassify ==
  ClassifyCall /\ UNCHANGED <<recVars, lockVars, gcVars, shardVars, run>>

SpecClassify == InitClassify /\ [][NextClassify]_vars

\* one invocation of terraform plan, apply or destroy with its options
InitOptions ==
  /\ InitRec /\ cr.module = 1 /\ cr.name = "ws"
  /\ InitLock /\ InitGC /\ InitShard /\ InitRun
  /\ NoClassify /\ InitInvocation /\ NoBootFollowed /\ InitEnv
  /\ NoEntryFollowed

Unit(A) == A /\ UNCHANGED <<recVars, lockVars, gcVars, shardVars, run>>

NextOptions ==
  \/ Unit(\E phase \in Phases : OptionsCall(phase) /\ UNCHANGED <<cls, boot, osenv, entry>>)
  \/ Unit(WriteVarFile /\ UNCHANGED <<cls, boot, osenv, entry>>)
  \/ Unit(ExecCommand /\ UNCHANGED <<cls, boot, osenv, entry>>)

SpecOptions == InitOptions /\ [][NextOptions]_vars

\* the start of the provider process
InitSetup ==
  /\ InitRec /\ cr.module = 1 /\ cr.name = "ws"
  /\ InitLock /\ InitGC /\ InitShard /\ InitRun
  /\ NoClassify /\ NoInvocation /\ InitBoot /\ InitEnv /\ NoEntryFollowed

NextSetup ==
  \/ Unit(SetupCall /\ UNCHANGED <<cls, inv, osenv, entry>>)
  \/ Unit(FatalIfError /\ UNCHANGED <<cls, inv, osenv, entry>>)
  \/ Unit(MgrStart /\ UNCHANGED <<cls, inv, osenv, entry>>)

SpecSetup == InitSetup /\ [][NextSetup]_vars

\* the Connects of the reconcile goroutines and the process environment
NextEnv ==
  \/ Unit(\E p \in Procs : ConnectCall(p) /\ UNCHANGED <<cls, inv, boot, entry>>)
  \/ Unit(\E p \in Procs : Setenv(p) /\ UNCHANGED <<cls, inv, boot, entry>>)
  \/ Unit(\E p \in Procs : GetModule(p) /\ UNCHANGED <<cls, inv, boot, entry>>)
  \/ Unit(\E p \in Procs : TfInit(p) /\ UNCHANGED <<cls, inv, boot, entry>>)
  \/ Unit(\E p \in Procs : ConnectReturn(p) /\ UNCHANGED <<cls, inv, boot, entry>>)

SpecEnv == InitL /\ [][NextEnv]_vars

\* one Connect of a Workspace with an entrypoint drawn from the bounded set
InitEntrypoint ==
  /\ InitRec /\ cr.module = 1 /\ cr.name = "ws"
  /\ InitLock /\ InitGC /\ InitShard /\ InitRun
  /\ NoClassify /\ NoInvocation /\ NoBootFollowed /\ InitEnv /\ InitEntry

NextEntry ==
  ConnectDir /\ UNCHANGED <<recVars, lockVars, gcVars, shardVars, run, cls, inv, boot, osenv>>

SpecEntry == InitEntrypoint /\ [][NextEntry]_vars

\* a step of the replicas, the rest of the provider standing still
Shard(A) == A /\ UNCHANGED <<recVars, lockVars, gcVars, run, unitVars>>

\* a membership change, or a step of an informer handler of a replica
Membership ==
  \/ Shard(\E k \in Sizes : Scale(k))
  \/ Shard(\E p \in PodNames : PodStart(p))
  \/ Shard(\E p \in PodNames : PodStop(p))
  \/ Shard(\E q \in OtherPods : OtherPodStart(q))
  \/ Shard(\E q \in OtherPods : OtherPodStop(q))
  \/ Shard(\E p \in PodNames : replicaSetHandlerFunc(p))
  \/ Shard(\E p \in PodNames : podHandlerReset(p))
  \/ Shard(\E p \in PodNames : podHandlerList(p))

NextShard == Membership

\* the replicas of one ReplicaSet and their informers
SpecShard == InitL /\ [][NextShard]_vars

NextOwn ==
  \/ Membership
  \/ Shard(\E p \in PodNames : \E c \in ProviderConfigs : ReconcileCheck(p, c))
  \/ Shard(ReconcileOwn)

\* the provider is started with or without --enable-workspace-sharding
InitOwn ==
  /\ InitRec /\ cr.module = 1 /\ cr.name = "ws"
  /\ InitLock /\ InitGC /\ InitRun /\ InitUnit
  /\ call = [str |-> <<>>, modulo |-> 1, intSize |-> IntSize, ret |-> 0, done |-> FALSE]
  /\ \E e \in BOOLEAN :
       cluster = [size |-> 1, pods |-> {}, used |-> {}, others |-> {}, n |-> 0,
                  sharding |-> e]
  /\ rep = [p \in PodNames |-> Down]
  /\ req = NoReq

\* the replicas, their informers and a ProviderConfig Reconcile
SpecOwn == InitOwn /\ [][NextOwn]_vars

(* ============================== claims ================================= *)

\* the subprocesses that run outside rwmutex
Unlocked == {"none", "plan", "checksum", "select", "show"}

InvokedDCW == Has(obs.calls, "DeleteCurrentWorkspace")

\* Observe of a tombstoned Workspace: the plan failed, zero resources listed
C2_Case == obs.called /\ obs.deleted /\ obs.diff.err /\ obs.r = 0

\* the steps of Observe after the resource listing did not fail
C2_LaterStepsOK == obs.err \notin {errDeleteWorkspace, errOutputs, errChecksum}

\* C2 (as stated): tombstoned, plan fails, zero tracked resources: Observe
\* invokes DeleteCurrentWorkspace, reports ResourceExists=false and returns
\* no error.
C2_AbsentWithoutError ==
  (C2_Case /\ C2_LaterStepsOK)
    => (InvokedDCW /\ ~obs.o.exists /\ obs.err = "")

\* C2 (amended): tombstoned, plan fails, zero tracked resources: Observe
\* invokes DeleteCurrentWorkspace and does not return the plan error; when
\* the deletion, the outputs and the checksum succeed it returns no error
\* and reports ResourceExists=false exactly when no outputs are returned,
\* which is always so unless the sub-workspace is the default one.
C2_DeletesAndReportsByOutputs ==
  C2_Case
    => /\ InvokedDCW
       /\ obs.err \in {"", errDeleteWorkspace, errOutputs, errChecksum}
       /\ obs.err = "" => /\ obs.o.exists <=> obs.outs # {}
                          /\ obs.o.upToDate
                          /\ cr.name # tfDefault => ~obs.o.exists

\* scenario A: the plan error is suppressed, the sub-workspace deleted
C2_Witness ==
  /\ C2_Case /\ obs.diff.ran /\ InvokedDCW
  /\ obs.err = "" /\ ~obs.o.exists /\ cr.name \notin tf.exists

\* Observe of a tombstoned Workspace: the plan failed, resources remain
C3_Case == obs.called /\ obs.deleted /\ obs.diff.err /\ obs.own.res >= 1

\* C3 (as stated): tombstoned, plan fails, a tracked resource remains:
\* Observe returns the plan error and does not delete the sub-workspace.
C3_PlanErrorSurfaced ==
  C3_Case => (obs.err = errDiff /\ ~InvokedDCW)

\* C3 (amended): a plan error is returned by Observe exactly when the
\* Workspace is not tombstoned; for a tombstoned Workspace it is suppressed
\* whether or not tracked resources remain, and while a tracked resource
\* remains the sub-workspace is not deleted.
C3_PlanErrorSuppressedWhenTombstoned ==
  /\ (obs.called /\ obs.diff.err) => (obs.err = errDiff <=> ~obs.deleted)
  /\ C3_Case => ~InvokedDCW

\* scenario B: the plan failed, a resource remains, no plan error returned
C3_Witness ==
  C3_Case /\ obs.diff.ran /\ obs.err # errDiff /\ obs.r >= 1 /\ ~InvokedDCW

C5_Differs == conn.fresh # <<>> /\ conn.fresh # conn.recorded

\* C5: a Connect that has prepared the WorkDir runs init if and only if the
\* recorded checksum is empty or differs from the fresh one; a Connect that
\* returns no error ended by selecting the sub-workspace named after the
\* external name, after init when init ran.
C5_InitIffChecksumDiffers ==
  (conn.called /\ conn.content # <<>>)
    => /\ Has(conn.calls, "Init") <=> (conn.recorded = <<>> \/ C5_Differs)
       /\ conn.err = "" => /\ conn.calls # <<>>
                           /\ Last(conn.calls) = "Workspace"
                           /\ tf.cur = cr.name
       /\ \A i, j \in 1..Len(conn.calls) :
            (conn.calls[i] = "Init" /\ conn.calls[j] = "Workspace") => i < j

\* a Connect that skipped init on a checksum match and selected
C5_Witness ==
  /\ conn.called /\ conn.err = "" /\ conn.recorded # <<>>
  /\ conn.recorded = conn.fresh
  /\ conn.calls = <<"GenerateChecksum", "Workspace">>

\* a Connect that follows a reconcile whose Observe succeeded, the tracked
\* WorkDir content being what it was when that Observe ended
C6_Case ==
  conn.called /\ conn.prev.observed /\ conn.content = conn.prev.content

\* the previous reconcile ended with a successful Create or Update
C6_Applied == conn.prev.op \in {"create", "update"} /\ conn.prev.opOK

\* C6 (as stated): with unchanged WorkDir content the second reconcile's
\* Connect runs no init, whatever the first reconcile performed.
C6_SecondConnectSkipsInit ==
  C6_Case => ~Has(conn.calls, "Init")

\* C6 (amended): with unchanged WorkDir content the second reconcile's
\* Connect runs no init, selects the sub-workspace and goes on to Observe
\* when the first reconcile performed Observe only, Delete, or a failed
\* Create / Update; after a successful Create or Update the recorded
\* checksum is empty and the second Connect runs init.
C6_SkipsInitUnlessApplied ==
  C6_Case
    => /\ ~C6_Applied
            => /\ ~Has(conn.calls, "Init")
               /\ conn.err # errChecksum => Has(conn.calls, "Workspace")
               /\ conn.err = "" => pc = "observe"
       /\ C6_Applied => (conn.recorded = <<>> /\ Has(conn.calls, "Init"))

\* scenario D, after a reconcile that called Delete
C6_Witness ==
  /\ C6_Case /\ conn.prev.op = "delete" /\ conn.err = ""
  /\ conn.calls = <<"GenerateChecksum", "Workspace">> /\ pc = "observe"

\* C7 (as stated): every Observe computes the checksum and records it in
\* the status, whatever its outcome.
C7_ChecksumAlwaysRecorded ==
  obs.called
    => (Has(obs.calls, "GenerateChecksum") /\ status.checksum = obs.content)

\* C7 (amended): Observe computes and records the checksum exactly when it
\* returns no error; when the options, the plan (of a Workspace that is
\* not tombstoned), the resource listing, the sub-workspace deletion or the
\* outputs fail it returns before computing it and the recorded checksum
\* stays what it was; when the checksum itself fails the recorded checksum
\* is left empty.
C7_ChecksumRecordedOnSuccess ==
  obs.called
    => /\ obs.err = ""
            => /\ Has(obs.calls, "GenerateChecksum")
               /\ status.checksum = obs.content /\ status.checksum # <<>>
       /\ obs.err \in {errOptions, errDiff, errResources, errDeleteWorkspace, errOutputs}
            => /\ ~Has(obs.calls, "GenerateChecksum")
               /\ status.checksum = obs.before
       /\ obs.err = errChecksum => status.checksum = <<>>
       /\ obs.err \in {"", errOptions, errDiff, errResources, errDeleteWorkspace,
                       errOutputs, errChecksum}

\* an Observe that succeeded recorded the checksum of the current content,
\* replacing an older one
C7_Witness ==
  /\ obs.called /\ obs.err = "" /\ obs.before # <<>>
  /\ obs.before # obs.content /\ status.checksum = obs.content

\* C8: Diff maps the exit code of the plan subprocess: 0 to (no
\* difference, the 'no change' text, no error), 2 to (difference, a
\* non-empty encoded plan, no error), 1 to (no difference, empty text, an
\* error).
C8_ExitCodeMapping ==
  (obs.called /\ obs.diff.ran)
    => /\ obs.exit = 0
            => (~obs.diff.differs /\ obs.diff.text = noDiffInPlan /\ ~obs.diff.err)
       /\ obs.exit = 2
            => (obs.diff.differs /\ obs.diff.text # <<>> /\ ~obs.diff.err)
       /\ obs.exit = 1
            => (~obs.diff.differs /\ obs.diff.text = <<>> /\ obs.diff.err)

\* C9: when Observe returns no error, ResourceExists is (resources +
\* outputs > 0) and ResourceUpToDate is the negation of the plan's
\* 'differs'; zero resources with an output is reported as existing.
C9_ExistsAndUpToDate ==
  (obs.called /\ obs.err = "")
    => /\ obs.o.exists <=> (obs.r + Cardinality(obs.outs) > 0)
       /\ obs.o.upToDate <=> ~obs.diff.differs
       /\ (obs.r = 0 /\ obs.outs # {}) => obs.o.exists

\* no resources, an output: the Workspace exists
C9_Witness ==
  /\ obs.called /\ obs.err = "" /\ obs.r = 0 /\ obs.outs # {}
  /\ obs.o.exists /\ ~obs.deleted

\* C10 (as stated): Gone is reached only in a reconcile where the
\* Workspace is tombstoned and its own sub-workspace holds zero tracked
\* resources and zero outputs.
C10_GoneOnlyWhenOwnStateEmpty ==
  pc = "gone" => (obs.deleted /\ obs.own = EmptyState)

\* C10 (amended): Gone is reached only in a reconcile where the Workspace
\* is tombstoned, its own sub-workspace holds zero tracked resources, and
\* the outputs read after DeleteCurrentWorkspace - those of the default
\* sub-workspace once the own one is deleted - are empty; outputs the own
\* sub-workspace held are not looked at.
C10_GoneOnlyWhenNothingReported ==
  pc = "gone"
    => /\ obs.called /\ obs.err = "" /\ obs.deleted
       /\ obs.own.res = 0 /\ obs.r = 0
       /\ obs.outs = {}
       /\ InvokedDCW

\* Gone, reached by deleting the sub-workspace
C10_Witness ==
  /\ pc = "gone" /\ obs.deleted /\ obs.own = EmptyState
  /\ cr.name # tfDefault /\ cr.name \notin tf.exists

(* ---- C11 -------------------------------------------------------------- *)
\* the Delete handler has just returned from a successful destroy
C11_Destroyed == op.called = "delete" /\ op.err = ""

\* what holds of every reconcile of a tombstoned Workspace
C11_EveryReconcile ==
  /\ (obs.called /\ obs.deleted /\ obs.own.res >= 1 /\ obs.err = "")
       => pc = "delete"
  /\ (op.called = "delete" /\ op.err # errOptions) => Has(op.calls, "Destroy")
  /\ (obs.called /\ obs.destroyed /\ obs.err = "")
       => (~obs.o.exists /\ pc = "gone")

C12_Outputs == tf.st[tf.cur].outs

\* an Observe, a Create or an Update has just returned without error
C12_Case ==
  \/ obs.called /\ obs.err = ""
  \/ op.called \in {"create", "update"} /\ op.err = ""

\* the connection details the handler returned
C12_Details == IF obs.called THEN obs.o.cd ELSE op.cd

C13_NeverRemovesLiveWorkDir == gc.hit = {}

(* ---- C14 -------------------------------------------------------------- *)
\* the directories the cycle found on disk, and the directories there now
C14_D == {gc.c.fis[k].name : k \in {j \in 1..Len(gc.c.fis) : gc.c.fis[j].isDir}}
C14_Dirs == {n \in FsNames : fs[n] = "dir"}

\* collect is about to return nil
C14_Case == gc.phase = "end" /\ gc.c.err = <<>>

\* C14: when listing and every removal succeeded, the directories left by
\* the cycle (those a Connect made since the directory was read set aside)
\* are the directories found whose name is a listed UID or has not the
\* shape of a UUID.
C14_PostCollectionSet ==
  C14_Case =>
    C14_Dirs \ gc.c.made =
      (C14_D \cap gc.c.exists) \cup {n \in C14_D : ~isUUID(n)}

\* a cycle that kept a live WorkDir and the plugin cache and removed a stale one
C14_Witness ==
  /\ C14_Case
  /\ C14_D \cap gc.c.exists # {}
  /\ PluginCache \in C14_Dirs
  /\ gc.c.removed # {}

(* ---- C15 -------------------------------------------------------------- *)
\* C15: no step removes an entry whose name has not the shape of a UUID.
C15_NonIdentifiersKept ==
  [][\A n \in FsNames : (fs[n] # "none" /\ fs'[n] = "none") => isUUID(n)]_vars

\* a cycle with a failed and a successful removal has left the plugin cache
C15_Witness ==
  /\ gc.phase = "end"
  /\ gc.c.failed # <<>> /\ gc.c.removed # {}
  /\ PluginCache \in C14_D
  /\ fs[PluginCache] = "dir"

(* ---- C16 -------------------------------------------------------------- *)
\* the stale directories of the cycle
C16_Stale ==
  {gc.c.fis[k].name : k \in {j \in 1..Len(gc.c.fis) : ~Skip(gc.c.exists, gc.c.fis[j])}}

\* the remove loop of collect is over
C16_Case ==
  gc.phase = "end" /\ (gc.c.err = <<>> \/ gc.c.err[1] = errDeleteDirs)

\* C16: the cycle tried to remove every stale directory, whichever removal
\* failed, and its one error names exactly the directories whose removal
\* failed (no error if none failed).
C16_AllAttemptedOneError ==
  C16_Case =>
    LET notRemoved == {Path(n) : n \in gc.c.attempted \ gc.c.removed} IN
      /\ gc.c.attempted = C16_Stale
      /\ (notRemoved = {}) = (gc.c.err = <<>>)
      /\ notRemoved # {} =>
           /\ gc.c.err[1] = errDeleteDirs
           /\ {gc.c.err[k] : k \in 2..Len(gc.c.err)} = notRemoved
           /\ Len(gc.c.err) = 1 + Cardinality(notRemoved)

\* the first removal failed and a later one was made and succeeded
C16_Witness ==
  /\ C16_Case
  /\ Len(gc.c.failed) = 1 /\ gc.c.failed[1] = Path(StaleUID)
  /\ gc.c.removed # {}

(* ---- C17 -------------------------------------------------------------- *)
\* C17: Run returns only when its context is done, and a tick that follows
\* a failed collection leads to another collection (or, the context being
\* done, to the return of Run).
C17_CollectsAfterFailure ==
  /\ [](gc.phase = "returned" => gc.done)
  /\ ((gc.last.err # <<>> /\ gc.tick) ~> (gc.phase \in {"list", "returned"}))

\* a collection starts after a failed one
C17_Witness == gc.phase = "list" /\ gc.last.ran /\ gc.last.err # <<>> /\ ~gc.done

(* ---- C18 -------------------------------------------------------------- *)
\* C18: the result of HashAndModulo(identifier, R), R >= 1, lies in [0, R)
\* and is the same whatever the width of int.
C18_InRangeOnEveryArchitecture ==
  call.done =>
    /\ call.ret \in 0..(call.modulo - 1)
    /\ \A w \in IntSizes : call.ret = HashAndModulo(call.str, call.modulo, w)

(* ---- C19 -------------------------------------------------------------- *)
\* the running replicas
C19_Up == {p \in PodNames : rep[p].up}

\* the running replicas hold the same replica count R >= 1 and pairwise
\* distinct indices that cover 0..R-1
C19_Consistent ==
  /\ C19_Up # {}
  /\ \E R \in 1..MaxReplicas :
       /\ \A p \in C19_Up : rep[p].replicas = R
       /\ {rep[p].index : p \in C19_Up} = 0..(R - 1)
       /\ Cardinality(C19_Up) = R

\* C19: when the replicas hold a consistent identity, every ProviderConfig
\* passes the ownership test on exactly one of them.
C19_ExactlyOneOwner ==
  C19_Consistent =>
    \A c \in Identifiers : Cardinality({p \in C19_Up : Accepts(p, c)}) = 1

\* two replicas with a consistent identity, each owning some ProviderConfig
C19_Witness ==
  /\ C19_Consistent /\ Cardinality(C19_Up) = 2
  /\ \A p \in C19_Up : \E c \in ProviderConfigs : Accepts(p, c)

(* ---- C20 -------------------------------------------------------------- *)
\* C20: at no moment does a ProviderConfig pass the ownership test on two
\* replicas.
C20_NoOverlap ==
  \A c \in Identifiers : \A p, q \in PodNames :
    (Accepts(p, c) /\ Accepts(q, c)) => p = q

(* ---- C21 -------------------------------------------------------------- *)
\* the followed Reconcile ran with sharding enabled, read the ProviderConfig
\* and found the identity not yet known at its check
C21_Unknown ==
  /\ req.phase # "idle" /\ cluster.sharding /\ req.get = "ok"
  /\ (req.seen[1] < 0 \/ req.seen[2] < 1)

\* C21: with sharding enabled, a Reconcile that finds index < 0 or a replica
\* count < 1 returns no error and a requeue after the fixed backoff, and
\* does not call the underlying reconciler.
C21_DeferredNotDropped ==
  C21_Unknown => (req.phase = "done" /\ req.result = "requeue")

\* a Reconcile deferred on a replica whose index is known but whose
\* ReplicaSet is declared with zero replicas
C21_Witness ==
  C21_Unknown /\ req.result = "requeue" /\ req.seen[1] >= 0 /\ req.seen[2] = 0

(* ---- C22 -------------------------------------------------------------- *)
\* the followed Reconcile ran with sharding enabled, read the ProviderConfig
\* and reached the ownership test with a known identity
C22_Known ==
  /\ req.phase = "done" /\ cluster.sharding /\ req.get = "ok"
  /\ req.own # <<>> /\ req.own[1] >= 0 /\ req.own[2] >= 1

\* C22: with sharding enabled and a known identity the underlying
\* reconciler is called exactly when hash(UID) mod replica count is the
\* index of the replica; with sharding disabled it is called for every
\* request.
C22_InvokedIffOwned ==
  /\ C22_Known =>
       (req.result = "reconcile" <=>
          HashAndModulo(req.c, req.own[2], IntSize) = req.own[1])
  /\ (req.phase = "done" /\ ~cluster.sharding) => req.result = "reconcile"

\* the replica of index 1 among two reconciles a ProviderConfig it owns
C22_Witness ==
  C22_Known /\ req.own = <<1, 2>> /\ req.result = "reconcile"

\* a request skipped by a replica of two; a request of a provider started
\* without sharding
C22_WitnessSkip == C22_Known /\ req.own[2] = 2 /\ req.result = "skip"
C22_WitnessDisabled == req.phase = "done" /\ ~cluster.sharding

(* ---- C23 -------------------------------------------------------------- *)
\* the running replicas that have processed every event delivered to them
C23_Settled ==
  {p \in PodNames : rep[p].up /\ rep[p].rsq = <<>> /\ rep[p].podq = <<>>
                                /\ ~rep[p].handling}

\* C23: once a replica has processed its ReplicaSet and Pod events, its
\* replica count is the declared size of its ReplicaSet and its index is
\* the rank of its pod among the pods of that ReplicaSet sorted by name.
C23_IdentityIsRank ==
  \A p \in C23_Settled :
    /\ rep[p].replicas = cluster.size
    /\ rep[p].index = IndexOf(cluster.pods, p)

(* ---- C24 -------------------------------------------------------------- *)
\* C24: when the deadline elapses before the subprocess exits, the harness
\* operation returns an error that wraps the cancellation cause, with the
\* Signal or Wait failure if there is one; it returns no success and no
\* output.
C24_CancelledOnDeadline ==
  (run.late /\ run.main \in {"done", "panic"}) =>
    (run.main = "done" /\ run.res \in Cancelled)

(* ---- C25 -------------------------------------------------------------- *)
\* the operation has left runCommand through the ctx.Done() case
C25_Expired == run.main = "panic" \/ (run.main = "done" /\ run.res \in Cancelled)

\* C25: on deadline expiry the harness sends SIGTERM to the subprocess and
\* does not return to its caller before the subprocess has exited.
C25_TerminatedBeforeReturn ==
  C25_Expired =>
    /\ run.proc # "running"
    /\ run.proc = "exited" => run.termed

(* ---- C26 -------------------------------------------------------------- *)
\* the step is a Create or an Update handler
C26_Handler == pc \in {"create", "update"} /\ pc' = "done"

\* C26: Create and Update are one operation: whichever of the two runs,
\* the harness calls, the status and condition left, the connection details
\* and the error are those of the same function of the Workspace and of the
\* behaviour of the harness.
C26_CreateIsUpdate ==
  [][C26_Handler =>
       \E in \in UpdateInputs :
         LET u == UpdateOp(status, tf, in) IN
           /\ status' = u.status /\ tf' = u.tf
           /\ op'.calls = u.calls /\ op'.cd = u.cd /\ op'.err = u.err]_vars

\* a Create that applied, refreshed the outputs and returned a connection
\* detail
C26_Witness ==
  op.called = "create" /\ op.err = "" /\ status.available /\ op.cd # {}

(* ---- C27 -------------------------------------------------------------- *)
\* C27: Create / Update touches the status (the Available condition, the
\* outputs) only when apply and the outputs retrieval after it both
\* succeeded, and then the Workspace is Available; when the options or
\* apply fail, Outputs is not called and the status is left as it was.
C27_AvailableOnlyOnSuccess ==
  [][(pc \in {"create", "update"} /\ pc' = "done") =>
       /\ status' # status => (op'.err = "" /\ op'.calls = <<"Apply", "Outputs">>)
       /\ op'.err = "" => status'.available
       /\ op'.err \in {errOptions, errApply} =>
            (~Has(op'.calls, "Outputs") /\ status' = status)]_vars

\* an Update whose apply failed
C27_Witness ==
  op.called = "update" /\ op.err = errApply /\ op.calls = <<"Apply">>

\* a Create whose outputs retrieval failed after a successful apply
C27_WitnessOutputs ==
  op.called = "create" /\ op.err = errOutputs /\ ~status.available

(* ---- C28 -------------------------------------------------------------- *)
\* C28: when the plan of a Workspace that is not tombstoned fails, Observe
\* returns the plan error wrapped as errDiff and a zero observation, calls
\* neither Resources nor Outputs nor GenerateChecksum, and leaves the
\* status as it was.
C28_PlanFailureStopsObserve ==
  [][(pc = "observe" /\ obs'.called /\ ~cr.deleted /\ obs'.diff.err) =>
       /\ obs'.err = errDiff /\ obs'.o = ZeroObservation
       /\ obs'.calls = <<"Diff">>
       /\ status' = status /\ tf' = tf]_vars

\* an Observe of a live Workspace whose plan ran and failed
C28_Witness ==
  /\ obs.called /\ ~obs.deleted /\ obs.diff.ran /\ obs.diff.err
  /\ obs.err = errDiff

(* ---- C29 -------------------------------------------------------------- *)
\* Harness.Workspace has been called: command 1 is `workspace select`,
\* command 2 is `workspace new`
C29_Called == run.op = "workspace" /\ run.main # "idle"

\* C29: Workspace runs `workspace select` first; `workspace new` is run
\* exactly when the select failed; Workspace returns an error exactly when
\* the select and the new both failed.
C29_NewIffSelectFailed ==
  C29_Called =>
    /\ run.k = 2 <=> (Len(run.hist) >= 1 /\ run.hist[1] # "")
    /\ run.main = "done" =>
         /\ Len(run.hist) = run.k
         /\ run.hist[1] = "" => run.k = 1
         /\ run.res # "ok" <=> \A i \in 1..Len(run.hist) : run.hist[i] # ""

\* the select failed with an exit status and the new succeeded
C29_Witness ==
  C29_Called /\ run.main = "done" /\ run.hist = <<"exit", "">> /\ run.res = "ok"

\* the select and the new both failed
C29_WitnessError ==
  C29_Called /\ run.main = "done" /\ run.hist = <<"exit", "exit">> /\ run.res = "exit"

(* ---- C30 -------------------------------------------------------------- *)
\* C30: DeleteCurrentWorkspace never deletes the default sub-workspace: on
\* 'default' it runs neither select nor delete and returns nil; otherwise
\* it runs `workspace delete` of the current name only after the switch to
\* 'default' succeeded, and on success 'default' is current and the named
\* sub-workspace is gone.
C30_DefaultNeverDeleted ==
  \A showOK, selOK, newOK, delOK \in BOOLEAN :
    LET d == DeleteCurrentWorkspace(tf, showOK, selOK, newOK, delOK)
        sw == Workspace(tf, tfDefault, selOK, newOK)
    IN /\ tfDefault \in d.tf.exists
       /\ (showOK /\ tf.cur = tfDefault) =>
            (d.cmds = <<"show">> /\ ~d.err /\ d.tf = tf)
       /\ Has(d.cmds, "delete") =>
            (tf.cur # tfDefault /\ ~sw.err /\ sw.tf.cur = tfDefault
               /\ Last(d.cmds) = "delete")
       /\ (~d.err /\ tf.cur # tfDefault) =>
            (Has(d.cmds, "delete") /\ d.tf.cur = tfDefault
               /\ tf.cur \notin d.tf.exists)

\* an Observe of a tombstoned Workspace has deleted the sub-workspace "ws"
C30_Witness ==
  /\ obs.called /\ obs.err = "" /\ Has(obs.calls, "DeleteCurrentWorkspace")
  /\ cr.name = "ws" /\ tf.cur = tfDefault /\ "ws" \notin tf.exists

(* ---- C31 -------------------------------------------------------------- *)
\* the lines of a text, as strings.Split(text, "\n") gives them
RECURSIVE SplitLines(_)
SplitLines(text) ==
  IF LineEnd(text, 1) > Len(text) THEN <<text>>
  ELSE <<SubSeq(text, 1, LineEnd(text, 1) - 1)>>
         \o SplitLines(SubSeq(text, LineEnd(text, 1) + 1, Len(text)))

\* what follows the first "Error: " of a line, <<>> when nothing does
AfterError(line) ==
  LET at == {i \in 1..Len(line) : line[i] = "Error: "}
  IN IF at = {} THEN <<>>
     ELSE SubSeq(line, (CHOOSE i \in at : \A j \in at : i <= j) + 1, Len(line))

\* the first element of a sequence of lines that satisfies Ok, <<>> if none
FirstLine(lines, Ok(_)) ==
  LET at == {k \in 1..Len(lines) : Ok(lines[k])}
  IN IF at = {} THEN <<>> ELSE lines[CHOOSE k \in at : \A j \in at : k <= j]

C31_HasError(line) == AfterError(line) # <<>>
C31_NonEmpty(line) == line # <<>>
C31_Classified == cls.err.kind = "ExitError" /\ cls.ret # NoErr
\* the lines of the captured stderr that end in a line feed
C31_Terminated ==
  LET lines == SplitLines(cls.err.Stderr) IN SubSeq(lines, 1, Len(lines) - 1)

C31_WitnessEmpty ==
  /\ C31_Classified
  /\ cls.ret.summary = <<>>
  /\ Has(cls.err.Stderr, "l")

(* ---- C32 -------------------------------------------------------------- *)
\* the content of the file of that name in the harness directory, "" if none
C32_Content(name) ==
  LET at == {k \in 1..Len(inv.dir) : inv.dir[k].filename = name}
  IN IF at = {} THEN ""
     ELSE inv.dir[CHOOSE k \in at : \A j \in at : j <= k].data
C32_Started == inv.pc = "started"
C32_IsVarFile(arg) == Len(arg) = 2 /\ arg[1] = "-var-file"

\* C32: the arguments of a started plan, apply or destroy are the fixed flags
\* of the subcommand, one -var per inline variable in declared order, one
\* -var-file per variable file in declared order, the -var-file of the JSON
\* variable map if there is one, and then the arguments of that phase only;
\* the -var-file arguments name distinct files, each holding the content of
\* its source when the subprocess starts.
C32_ArgumentList ==
  C32_Started =>
    LET p == inv.p
        nv == Len(p.Vars)
        nf == Len(p.VarFiles)
        nm == IF p.VarMap = "nil" THEN 0 ELSE 1
        d == DefaultArgs(inv.phase)
        rest == SubSeq(inv.cmd, Len(d) + 1, Len(inv.cmd))
        files == {i \in 1..Len(rest) : C32_IsVarFile(rest[i])}
    IN /\ SubSeq(inv.cmd, 1, Len(d)) = d
       /\ Len(rest) = nv + nf + nm + Len(PhaseArgs(inv.phase))
       /\ \A i \in 1..nv : rest[i] = <<"-var", p.Vars[i]>>
       /\ \A i \in 1..nf :
            /\ C32_IsVarFile(rest[nv + i])
            /\ rest[nv + i][2].json = (p.VarFiles[i].Format = "JSON")
            /\ C32_Content(rest[nv + i][2]) = RefData(p.VarFiles[i])
       /\ nm = 1 =>
            /\ C32_IsVarFile(rest[nv + nf + 1])
            /\ rest[nv + nf + 1][2].json
            /\ C32_Content(rest[nv + nf + 1][2]) = p.VarMap
       /\ SubSeq(rest, nv + nf + nm + 1, Len(rest)) = PhaseArgs(inv.phase)
       /\ \A ph \in Phases \ {inv.phase} :
            \A k \in 1..Len(PhaseArgs(ph)) : ~Has(inv.cmd, PhaseArgs(ph)[k])
       /\ files = (nv + 1)..(nv + nf + nm)
       /\ \A i, j \in files : i # j => rest[i][2] # rest[j][2]

\* a plan was started for a Workspace with two inline variables, a ConfigMap
\* and a Secret variable file and a variable map
C32_Witness ==
  /\ C32_Started
  /\ inv.phase = "plan"
  /\ Len(inv.p.Vars) = 2 /\ inv.p.Vars[1] # inv.p.Vars[2]
  /\ Len(inv.p.VarFiles) = 2
  /\ inv.p.VarFiles[1].Source # inv.p.VarFiles[2].Source
  /\ inv.p.VarMap # "nil"

(* ---- C33 -------------------------------------------------------------- *)
\* identity.Setup was called and did not resolve the identity
C33_Unresolved ==
  /\ boot.pc # "main"
  /\ boot.in.sharding
  /\ identitySetup(boot.in) # ""

\* C33: a failure to resolve the sharding identity at startup is retried on a
\* timer; controller setup returns no error for it and the process neither
\* exits nor crashes.
C33_IdentityFailureNotFatal ==
  C33_Unresolved =>
    /\ boot.err = ""
    /\ boot.pc \notin {"exited", "crashed"}
    /\ boot.pc = "running" => boot.retry

(* ---- C34 -------------------------------------------------------------- *)
\* every harness in use was built with UsePluginCache
C34_AllCached == \A p \in Procs : h[p].phase # "idle" => h[p].cache
\* the subprocesses the claim names
C34_Excluded ==
  {"init", "apply", "destroy", "output", "state list", "new", "delete"}

\* C34: when every harness has the plugin cache enabled, two init
\* subprocesses never run at the same time, and no init subprocess runs
\* beside an apply, destroy, outputs, resources, workspace new or workspace
\* delete subprocess.
C34_InitRunsAlone ==
  C34_AllCached =>
    \A p \in Procs :
      Running(p) = "init" =>
        \A q \in Procs \ {p} : Running(q) \notin C34_Excluded

\* an init runs while the init of another harness waits for the write lock:
\* both harnesses have the plugin cache
C34_Witness ==
  \E p, q \in Procs :
    /\ p # q /\ C34_AllCached
    /\ Running(p) = "init"
    /\ h[q].cmd = "init" /\ h[q].phase = "lock"

(* ---- C35 -------------------------------------------------------------- *)
\* rwmutex is held by the harness calls that are between their lock and
\* their deferred unlock, and by nothing else
C35_HeldByCallsOnly ==
  /\ rwmutex.readers = Cardinality({p \in Procs : Held(h[p]) = "R"})
  /\ rwmutex.held <=> \E p \in Procs : Held(h[p]) = "W"
  /\ rwmutex.writer # 0 =>
       (h[rwmutex.writer].phase = "wlock" \/ Held(h[rwmutex.writer]) = "W")
\* a call that takes the lock holds no side of it
C35_NoReentry ==
  \A p \in Procs :
    h[p].phase \in {"lock", "wlock"} => Held(h[p]) = "none"
C35_WaitingInit(p) == h[p].cmd = "init" /\ h[p].phase \in {"lock", "wlock"}

\* C35: a harness call that took rwmutex has released it when it returns,
\* whether its subprocess succeeded or failed, and takes it only while it
\* holds no side of it; so, every subprocess terminating, an init that waits
\* for the lock gets it and every harness call returns.
C35_ReleasedAndInitAcquires ==
  /\ [](C35_HeldByCallsOnly /\ C35_NoReentry)
  /\ \A p \in Procs : C35_WaitingInit(p) ~> (Held(h[p]) = "W")
  /\ \A p \in Procs : (h[p].phase # "idle") ~> (h[p].phase = "idle")

\* an init waits for the readers to leave while the workspace delete of a
\* DeleteCurrentWorkspace, which went through Workspace before, runs
C35_Witness ==
  \E p, q \in Procs :
    /\ p # q
    /\ h[p].cmd = "init" /\ h[p].phase = "wlock"
    /\ h[q].inner /\ Running(q) = "delete" /\ h[q].cache
    /\ rwmutex.readers = 1

(* ---- C36 -------------------------------------------------------------- *)
\* a Create or Update has just returned without error
C36_Applied == op.called \in {"create", "update"} /\ op.err = ""
\* the Connect that follows a successful Create or Update got as far as its
\* decision on init
C36_NextConnect ==
  /\ conn.called
  /\ conn.prev.op \in {"create", "update"} /\ conn.prev.opOK
  /\ conn.err \notin {errMkdir, errGetCreds}

\* C36: after a successful Create or Update the status holds the outputs
\* that are not sensitive and neither checksum nor plan, and the Connect of
\* the next reconcile finds no recorded checksum and runs init, the WorkDir
\* content being unchanged or not.
C36_AppliedStatusIsOutputsOnly ==
  /\ C36_Applied =>
       /\ status.checksum = <<>>
       /\ ~status.plan
       /\ status.outputs = {n \in op.cd : ~Sensitive(n)}
  /\ C36_NextConnect =>
       /\ conn.recorded = <<>>
       /\ Has(conn.calls, "Init")
       /\ ~Has(conn.calls, "GenerateChecksum")

\* an Update succeeded on a Workspace whose status held a checksum and a
\* plan, and the next Connect ran init over the same WorkDir content
C36_Witness ==
  /\ C36_NextConnect
  /\ conn.prev.op = "update"
  /\ conn.content = conn.prev.content
  /\ conn.calls = <<"Init", "Workspace">>
C36_WitnessCleared ==
  /\ C36_Applied /\ op.called = "update"
  /\ obs = NoObs /\ status.outputs # {}

(* ---- C37 -------------------------------------------------------------- *)
\* the followed Reconcile passed the validity check and made its ownership
\* test on a running replica
C37_Tested ==
  /\ req.phase = "done" /\ cluster.sharding /\ req.get = "ok"
  /\ req.seen # <<>> /\ req.seen[1] >= 0 /\ req.seen[2] >= 1
  /\ req.own # <<>>

\* C37: the ownership test of a Reconcile uses the index and the replica
\* count that passed its validity check: HashAndModulo is not called with a
\* replica count below 1, and no request is dropped without requeue on an
\* index that the pod handler has reset to -1 meanwhile.
C37_TestUsesCheckedIdentity ==
  C37_Tested =>
    /\ req.own = req.seen
    /\ req.own[2] >= 1 /\ req.result # "panic"
    /\ ~(req.result = "skip" /\ req.own[1] = -1)

\* the two failures apart: a test on a replica count of 0, and a request
\* dropped on the index -1
C37_NoZeroModulo == C37_Tested => req.own[2] >= 1
C37_NoDropOnReset == C37_Tested => ~(req.result = "skip" /\ req.own[1] = -1)

(* ---- C38 -------------------------------------------------------------- *)
\* C38: the fetch of a remote module and the init of a Connect for a
\* Workspace never run with GIT_CRED_DIR naming the git-credentials
\* directory of another Workspace.
C38_OwnCredDirOnly ==
  \A p \in Procs :
    \A d \in osenv.c[p].saw : d \in {0, osenv.c[p].w}

\* the same for a Connect whose ProviderConfig has a .git-credentials entry,
\* and for goroutines that never run at the same time
C38_OwnCredDirWhenSet ==
  \A p \in Procs :
    osenv.c[p].creds => \A d \in osenv.c[p].saw : d = osenv.c[p].w
C38_Sequential ==
  (\E p \in Procs : \A q \in Procs \ {p} : osenv.c[q] = NoConnect)
    => C38_OwnCredDirOnly

(* ---- C39 -------------------------------------------------------------- *)
\* runCommand took its ctx.Done() case while c.Process was nil: the worker
\* goroutine had not started the subprocess, or could not start it
C39_DoneBeforeStart ==
  run.ctx = "done" /\ run.proc \in {"none", "failed"} /\ run.main \in {"done", "panic"}
    /\ run.res \notin {"start"}

\* C39: runCommand does not crash the process; taking the ctx.Done() case
\* before the subprocess is started, it returns a cancellation error.
C39_NoCrashBeforeStart ==
  /\ run.main # "panic"
  /\ C39_DoneBeforeStart => run.res \in Cancelled

(* ---- C40 -------------------------------------------------------------- *)
\* the directory lies in the WorkDir: its path starts with tf/<UID>
C40_Inside(dir) == Len(dir) >= Len(WorkDir) /\ SubSeq(dir, 1, Len(WorkDir)) = WorkDir

\* C40: whatever the entrypoint, the directory in which Connect writes the
\* credential and configuration files and runs terraform lies inside the
\* WorkDir of the Workspace.
C40_DirInsideWorkDir ==
  entry.pc = "done" => C40_Inside(entry.dir)

\* the same for the entrypoints in which every "../" is written out plainly:
\* those that hold no ".." once the occurrences of "../" are taken away
C40_PlainDotDotSlash ==
  (entry.pc = "done"
     /\ ~\E i \in 1..(Len(ReplaceAllDotDotSlash(entry.Entrypoint)) - 1) :
           SubSeq(ReplaceAllDotDotSlash(entry.Entrypoint), i, i + 1) = <<".", ".">>)
    => C40_Inside(entry.dir)

====
